---- MODULE Spec2Model ----
(***************************************************************************)
(* A model of the command dispatcher and the paginated browse session of   *)
(* mps-youtube (src/mps_youtube/main.py).                                  *)
(*                                                                         *)
(* Input lines are sequences of one-character strings.  A regular          *)
(* expression is a tree of records; Run computes, as Python's backtracking *)
(* matcher does, the candidate matches of a pattern at the start of the    *)
(* input in priority order, so that regex.match is the first candidate.    *)
(***************************************************************************)
EXTENDS Integers, Sequences, FiniteSets, TLC

\* ------------------------------------------------------------------------
\* Bounds of the model (not program constants)
\* ------------------------------------------------------------------------

\* getxy().max_results: the page size, fixed by the terminal height
MaxResults == 2

\* largest number of records a backend query yields
MaxN == 4

\* number of records the backend delivers per request of iter_songs
\* (the program asks for 'maxResults': 50 per request, scaled down here)
ApiBatch == 3

\* largest slice bound requested in the IterSlicer specification
MaxIdx == 4

\* ------------------------------------------------------------------------
\* Program constants
\* ------------------------------------------------------------------------

\* the search API returns at most 500 results
MaxApiResults == 500

\* upper repetition count of .{1,500} in the search pattern
SearchTermMax == 500

\* ------------------------------------------------------------------------
\* Characters
\* ------------------------------------------------------------------------

\* Python's None, where a number or a text is expected
None == -1

Digits == {"0", "1", "2", "3", "4", "5", "6", "7", "8", "9"}

Letters == {"a", "b", "c", "d", "e", "h", "i", "l", "n", "o", "p", "q",
            "r", "s", "t", "u", "v", "x", "y"}

Space == {" "}

Punct == {".", "/", ",", "-", "_", "*"}

\* every character an input line of the model is made of; "." matches these
AnyChar == Digits \cup Letters \cup Space \cup Punct

DigitVal == [d \in Digits |->
               CASE d = "0" -> 0 [] d = "1" -> 1 [] d = "2" -> 2
                 [] d = "3" -> 3 [] d = "4" -> 4 [] d = "5" -> 5
                 [] d = "6" -> 6 [] d = "7" -> 7 [] d = "8" -> 8
                 [] d = "9" -> 9]

RECURSIVE ToInt(_)
\* int(s) for a non-empty sequence of digits
ToInt(s) == IF Len(s) = 0 THEN 0
            ELSE 10 * ToInt(SubSeq(s, 1, Len(s) - 1)) + DigitVal[s[Len(s)]]

Min(a, b) == IF a < b THEN a ELSE b

Max(a, b) == IF a > b THEN a ELSE b

\* math.ceil(a / b) for a >= 0, b > 0
Ceil(a, b) == (a + b - 1) \div b

\* ------------------------------------------------------------------------
\* Regular expressions
\* ------------------------------------------------------------------------

Lit(s) == [t |-> "lit", s |-> s]

Cls(c) == [t |-> "cls", c |-> c]

Cat(rs) == [t |-> "cat", rs |-> rs]

Alt(rs) == [t |-> "alt", rs |-> rs]

\* greedy repetition r{lo,hi}
Rep(r, lo, hi) == [t |-> "rep", r |-> r, lo |-> lo, hi |-> hi]

\* capture group number n
Grp(n, r) == [t |-> "grp", n |-> n, r |-> r]

\* r* and r+ : no upper repetition count
Star(r) == Rep(r, 0, None)

Plus(r) == Rep(r, 1, None)

Opt(r) == Rep(r, 0, 1)

NoGroups == [n \in 1..3 |-> <<None, None>>]

RECURSIVE Run(_, _, _), RunCat(_, _, _, _), RunCatOver(_, _, _, _, _),
          RunAlt(_, _, _, _), RunRep(_, _, _, _), RunRepOver(_, _, _, _, _),
          SetGroup(_, _, _, _)

\* the candidate matches of re in s from state st = [p: position, g: groups],
\* in the order a backtracking matcher tries them
Run(re, s, st) ==
    CASE re.t = "lit" ->
           IF /\ st.p + Len(re.s) <= Len(s)
              /\ SubSeq(s, st.p + 1, st.p + Len(re.s)) = re.s
           THEN <<[p |-> st.p + Len(re.s), g |-> st.g]>>
           ELSE <<>>
      [] re.t = "cls" ->
           IF st.p < Len(s) /\ s[st.p + 1] \in re.c
           THEN <<[p |-> st.p + 1, g |-> st.g]>>
           ELSE <<>>
      [] re.t = "cat" -> RunCat(re.rs, 1, s, st)
      [] re.t = "alt" -> RunAlt(re.rs, 1, s, st)
      [] re.t = "rep" -> RunRep(re, s, st, 0)
      [] re.t = "grp" -> SetGroup(Run(re.r, s, st), 1, re.n, st.p)

RunCat(rs, k, s, st) ==
    IF k > Len(rs) THEN <<st>>
    ELSE RunCatOver(Run(rs[k], s, st), 1, rs, k + 1, s)

RunCatOver(outs, i, rs, k, s) ==
    IF i > Len(outs) THEN <<>>
    ELSE RunCat(rs, k, s, outs[i]) \o RunCatOver(outs, i + 1, rs, k, s)

RunAlt(rs, k, s, st) ==
    IF k > Len(rs) THEN <<>>
    ELSE Run(rs[k], s, st) \o RunAlt(rs, k + 1, s, st)

RunRep(re, s, st, cnt) ==
    LET more == IF re.hi = None \/ cnt < re.hi
                THEN RunRepOver(Run(re.r, s, st), 1, re, s, [c |-> cnt, p |-> st.p])
                ELSE <<>>
        stop == IF cnt >= re.lo THEN <<st>> ELSE <<>>
    IN  more \o stop

RunRepOver(outs, i, re, s, from) ==
    IF i > Len(outs) THEN <<>>
    ELSE (IF outs[i].p > from.p
          THEN RunRep(re, s, outs[i], from.c + 1)
          ELSE <<>>)
         \o RunRepOver(outs, i + 1, re, s, from)

SetGroup(outs, i, n, start) ==
    IF i > Len(outs) THEN <<>>
    ELSE <<[p |-> outs[i].p,
            g |-> [outs[i].g EXCEPT ![n] = <<start, outs[i].p>>]]>>
         \o SetGroup(outs, i + 1, n, start)

\* regex.match(userinput): the first candidate, or no match
ReMatch(regex, userinput) ==
    LET outs == Run(regex, userinput, [p |-> 0, g |-> NoGroups])
    IN  IF Len(outs) = 0 THEN [ok |-> FALSE, p |-> 0, g |-> NoGroups]
        ELSE [ok |-> TRUE, p |-> outs[1].p, g |-> outs[1].g]

\* None where a text is expected (no input character is "None")
NoneText == <<"None">>

\* match.groups()[n - 1]: the text of group n, None when it did not take part
GroupText(m, userinput, n) ==
    IF m.g[n][1] = None THEN NoneText
    ELSE SubSeq(userinput, m.g[n][1] + 1, m.g[n][2])

\* ------------------------------------------------------------------------
\* The command registry g.commands: (regex, function) in registration order
\* ------------------------------------------------------------------------

D == Cls(Digits)

S == Cls(Space)

IdChars == Letters \cup Digits \cup {"-", "_"}

\* (?:search|\.|/)\s*([^./].{1,500})
search_re ==
    Cat(<<Alt(<<Lit(<<"s", "e", "a", "r", "c", "h">>), Lit(<<".">>), Lit(<<"/">>)>>),
          Star(S),
          Grp(1, Cat(<<Cls(AnyChar \ {".", "/"}),
                       Rep(Cls(AnyChar), 1, SearchTermMax)>>))>>)

\* (?:\.\.|\/\/|pls(?:earch)?\s)\s*(.*)
pl_search_re ==
    Cat(<<Alt(<<Lit(<<".", ".">>), Lit(<<"/", "/">>),
                Cat(<<Lit(<<"p", "l", "s">>),
                      Opt(Lit(<<"e", "a", "r", "c", "h">>)), S>>)>>),
          Star(S),
          Grp(1, Star(Cls(AnyChar)))>>)

\* (da|dv)\s+((?:\d+\s\d+|-\d|\d+-|\d,)(?:[\d\s,-]*))
down_many_re ==
    Cat(<<Grp(1, Alt(<<Lit(<<"d", "a">>), Lit(<<"d", "v">>)>>)),
          Plus(S),
          Grp(2, Cat(<<Alt(<<Cat(<<Plus(D), S, Plus(D)>>),
                             Cat(<<Lit(<<"-">>), D>>),
                             Cat(<<Plus(D), Lit(<<"-">>)>>),
                             Cat(<<D, Lit(<<",">>)>>)>>),
                       Star(Cls(Digits \cup Space \cup {",", "-"}))>>))>>)

\* (n|p)\s*(\d{1,2})?
nextprev_re ==
    Cat(<<Grp(1, Alt(<<Lit(<<"n">>), Lit(<<"p">>)>>)),
          Star(S),
          Opt(Grp(2, Rep(D, 1, 2)))>>)

\* u\s?([\d]{1,4})
user_more_re == Cat(<<Lit(<<"u">>), Opt(S), Grp(1, Rep(D, 1, 4))>>)

\* url\s(.*[-_a-zA-Z0-9]{11}.*)
yt_url_re ==
    Cat(<<Lit(<<"u", "r", "l">>), S,
          Grp(1, Cat(<<Star(Cls(AnyChar)), Rep(Cls(IdChars), 11, 11),
                       Star(Cls(AnyChar))>>))>>)

\* playurl\s(.*[-_a-zA-Z0-9]{11}[^\s]*)(\s-(?:f|a|w))?
play_url_re ==
    Cat(<<Lit(<<"p", "l", "a", "y", "u", "r", "l">>), S,
          Grp(1, Cat(<<Star(Cls(AnyChar)), Rep(Cls(IdChars), 11, 11),
                       Star(Cls(AnyChar \ Space))>>)),
          Opt(Grp(2, Cat(<<S, Lit(<<"-">>),
                           Alt(<<Lit(<<"f">>), Lit(<<"a">>), Lit(<<"w">>)>>)>>)))>>)

\* (un)?dump
dump_re == Cat(<<Opt(Grp(1, Lit(<<"u", "n">>))), Lit(<<"d", "u", "m", "p">>)>>)

\* (?:q|quit|exit)
quits_re ==
    Alt(<<Lit(<<"q">>), Lit(<<"q", "u", "i", "t">>), Lit(<<"e", "x", "i", "t">>)>>)

\* bindings of a test registry: overlapping patterns with recording handlers
\* play (\d+)
play_num_re == Cat(<<Lit(<<"p", "l", "a", "y", " ">>), Grp(1, Plus(D))>>)

\* play all
play_all_re == Lit(<<"p", "l", "a", "y", " ", "a", "l", "l">>)

\* play\s*(.*)
play_any_re == Cat(<<Lit(<<"p", "l", "a", "y">>), Star(S), Grp(1, Star(Cls(AnyChar)))>>)

\* @commands.command(regex) def function: the pattern bound to each function
\* (A, B, C: the recording handlers of the test registries)
RegexOf(function) ==
    CASE function = "search" -> search_re
      [] function = "pl_search" -> pl_search_re
      [] function = "down_many" -> down_many_re
      [] function = "nextprev" -> nextprev_re
      [] function = "user_more" -> user_more_re
      [] function = "play_url" -> play_url_re
      [] function = "yt_url" -> yt_url_re
      [] function = "dump" -> dump_re
      [] function = "quits" -> quits_re
      [] function = "A" -> play_num_re
      [] function = "B" -> play_all_re
      [] function = "C" -> play_any_re

\* the functions main.py registers, in source order; a registry is the
\* sequence of its bindings, each named by its function
Registry ==
    <<"search", "pl_search", "down_many", "nextprev", "user_more", "play_url",
      "yt_url", "dump">>

\* ------------------------------------------------------------------------
\* matchfunction and the dispatch loop of main()
\* ------------------------------------------------------------------------

\* a matchfunction that takes any match at the start of the line
matchfunction_prefix(regex, userinput) == ReMatch(regex, userinput).ok

\* match and match.group(0) == userinput
matchfunction(regex, userinput) ==
    LET m == ReMatch(regex, userinput)
    IN  m.ok /\ m.p = Len(userinput)

RECURSIVE Dispatch_nobreak(_, _, _)
\* a loop that does not break at the first match
Dispatch_nobreak(cmds, k, userinput) ==
    IF k > Len(cmds) THEN <<>>
    ELSE IF matchfunction(RegexOf(cmds[k]), userinput)
    THEN <<k>> \o Dispatch_nobreak(cmds, k + 1, userinput)
    ELSE Dispatch_nobreak(cmds, k + 1, userinput)

RECURSIVE Dispatch(_, _, _)
\* for i in g.commands: if matchfunction(...): break
\* the indices of the bindings whose handler the loop invokes, from binding k on
Dispatch(cmds, k, userinput) ==
    IF k > Len(cmds) THEN <<>>
    ELSE IF matchfunction(RegexOf(cmds[k]), userinput) THEN <<k>>
    ELSE Dispatch(cmds, k + 1, userinput)

\* ------------------------------------------------------------------------
\* IterSlicer
\* ------------------------------------------------------------------------

\* record number i (from 0) of the result source src
Rec(src, i) == [src |-> src, i |-> i]

\* IterSlicer(iterable, length) over a generator that yields N records;
\* gen is the state of the generator: "live", "stopped" once it has signalled
\* StopIteration, "raised" once an exception has left it
NewSlicer(src, N, length) ==
    [src |-> src, N |-> N, ilist |-> <<>>, gen |-> "live", length |-> length]

NoSlicer ==
    [src |-> "none", N |-> 0, ilist |-> <<>>, gen |-> "stopped", length |-> 0]

\* seq[s:e] for s >= 0 and e None or e >= 0
PySlice(seq, s, e) ==
    LET hi == IF e = None THEN Len(seq) ELSE Min(e, Len(seq))
    IN  SubSeq(seq, s + 1, hi)

\* a loop condition that stops pulling two records early
NeedMore_short(stop, n) == stop = None \/ stop > n + 1

\* the loop condition of __getitem__: (stop is None) or (stop > len(ilist) - 1)
NeedMore(stop, n) == stop = None \/ stop > n - 1

RECURSIVE Fill_prepend(_, _, _)
\* a loop that puts each pulled record in front of the memo
Fill_prepend(sl, stop, failAt) ==
    IF ~NeedMore(stop, Len(sl.ilist))
    THEN [sl |-> sl, exc |-> "none", late |-> FALSE]
    ELSE IF sl.gen # "live"
    THEN [sl |-> sl, exc |-> "none", late |-> TRUE]
    ELSE IF Len(sl.ilist) >= sl.N
    THEN [sl |-> [sl EXCEPT !.gen = "stopped"], exc |-> "none", late |-> FALSE]
    ELSE IF Len(sl.ilist) = failAt
    THEN [sl |-> [sl EXCEPT !.gen = "raised"], exc |-> "GdataError",
          late |-> FALSE]
    ELSE Fill_prepend([sl EXCEPT !.ilist = <<Rec(sl.src, Len(sl.ilist))>> \o @],
                      stop, failAt)

RECURSIVE Fill(_, _, _)
\* the while loop of __getitem__; failAt is the index whose fetch fails
\* (None: no fetch fails); late: next() was called on a finished generator
Fill(sl, stop, failAt) ==
    IF ~NeedMore(stop, Len(sl.ilist))
    THEN [sl |-> sl, exc |-> "none", late |-> FALSE]
    ELSE IF sl.gen # "live"
    THEN [sl |-> sl, exc |-> "none", late |-> TRUE]
    ELSE IF Len(sl.ilist) >= sl.N
    THEN [sl |-> [sl EXCEPT !.gen = "stopped"], exc |-> "none", late |-> FALSE]
    ELSE IF Len(sl.ilist) = failAt
    THEN [sl |-> [sl EXCEPT !.gen = "raised"], exc |-> "GdataError",
          late |-> FALSE]
    ELSE Fill([sl EXCEPT !.ilist = Append(@, Rec(sl.src, Len(sl.ilist)))],
              stop, failAt)

\* a __getitem__ that empties the memo when a pull fails
GetItem_forgetful(sl, s, e, failAt) ==
    LET stop == IF e = None \/ e < 0 THEN None ELSE e
        f == Fill(sl, stop, failAt)
    IN  [sl |-> IF f.exc # "none" THEN [f.sl EXCEPT !.ilist = <<>>] ELSE f.sl,
         exc |-> f.exc, late |-> f.late,
         res |-> IF f.exc # "none" THEN <<>> ELSE PySlice(f.sl.ilist, s, e)]

\* a __getitem__ without memo: it slices the records pulled by this call
GetItem_consuming(sl, s, e, failAt) ==
    LET stop == IF e = None \/ e < 0 THEN None ELSE e
        f == Fill(sl, stop, failAt)
        new == SubSeq(f.sl.ilist, Len(sl.ilist) + 1, Len(f.sl.ilist))
    IN  [sl |-> f.sl, exc |-> f.exc, late |-> f.late,
         res |-> IF f.exc # "none" THEN <<>>
                 ELSE IF sl.ilist = <<>> THEN PySlice(new, s, e) ELSE new]

\* IterSlicer.__getitem__(slice(s, e))
GetItem(sl, s, e, failAt) ==
    LET stop == IF e = None \/ e < 0 THEN None ELSE e
        f == Fill(sl, stop, failAt)
    IN  [sl |-> f.sl, exc |-> f.exc, late |-> f.late,
         res |-> IF f.exc # "none" THEN <<>> ELSE PySlice(f.sl.ilist, s, e)]

\* a __len__ that counts the records whether or not a length is declared
SlicerLen_counting(sl, failAt) ==
    LET r == GetItem(sl, 0, None, failAt)
    IN  IF r.exc # "none"
        THEN [sl |-> r.sl, res |-> None, exc |-> r.exc, late |-> r.late]
        ELSE [sl |-> [r.sl EXCEPT !.length = Len(r.res)],
              res |-> Len(r.res), exc |-> "none", late |-> r.late]

\* IterSlicer.__len__
SlicerLen(sl, failAt) ==
    IF sl.length # None
    THEN [sl |-> sl, res |-> sl.length, exc |-> "none", late |-> FALSE]
    ELSE LET r == GetItem(sl, 0, None, failAt)
         IN  IF r.exc # "none"
             THEN [sl |-> r.sl, res |-> None, exc |-> r.exc, late |-> r.late]
             ELSE [sl |-> [r.sl EXCEPT !.length = Len(r.res)],
                   res |-> Len(r.res), exc |-> "none", late |-> r.late]

\* the indices at which a pull of iter_songs asks the backend for a batch
\* and which a request with the given stop reaches
FailPoints(sl, stop) ==
    {None} \cup
    {i \in 0..MaxN : /\ i % ApiBatch = 0
                     /\ sl.gen = "live"
                     /\ Len(sl.ilist) <= i
                     /\ i < sl.N
                     /\ (stop = None \/ i <= stop)}

\* ------------------------------------------------------------------------
\* The browse session g and the command handlers
\*
\* A handler is an operator from the machine state
\*   st = [g, slicer, log, exc, ret, pre]
\* to the machine state it leaves: g is the session, slicer the IterSlicer
\* that g.last_search_query refers to, log the invocations of repeatable
\* queries made in this handling cycle, exc the exception that leaves the
\* handler ("none": it returns), ret its return value, pre the listing fields
\* of the session as they were when the last repeatable query was entered.
\* ------------------------------------------------------------------------

\* g.last_search_query: func is the function, length and src the 'length'
\* and 'func' arguments of paginatesongs, term the 'term' of pl_search
NoQuery == [func |-> "None", length |-> None, src |-> "none", term |-> <<>>]

\* the session before the first command (main(), interactive start, no
\* startup commands)
InitG ==
    [model |-> <<>>, ytpls |-> <<>>, browse_mode |-> "normal",
     current_page |-> 0, result_count |-> 0, last_search_query |-> NoQuery,
     message |-> "enter search", content |-> "logo", pages |-> 0,
     command_line |-> FALSE, argument_commands |-> <<>>,
     active |-> <<>>, userpl |-> {}, username_query_cache |-> <<>>]

\* isinstance(g.content, content.PaginatedContent)
IsPaginated(g) == g.content = "paginated"

\* g.content or generate_songlist_display()
ContentOr(content) == IF content = "" THEN "songlist" ELSE content

\* the fields of the session that hold the listing: the lists, the mode, the
\* page, the total and the stored query
Session(s) == <<s.model, s.ytpls, s.browse_mode, s.current_page,
                s.result_count, s.last_search_query>>

\* a repeatable query is entered: the call is logged and pre keeps the
\* session as it is at the call
Logged(st, f, page) ==
    [st EXCEPT !.log = Append(@, [f |-> f, page |-> page]), !.pre = Session(st.g)]

Raise(st, exc) == [st EXCEPT !.exc = exc]

\* a range that reaches one record into the next page
PageRange_wide(page, dumps) ==
    IF dumps THEN [s |-> 0, e |-> None]
    ELSE [s |-> page * MaxResults, e |-> (page + 1) * MaxResults + 1]

\* the range (s, e) paginatesongs asks of its source
PageRange(page, dumps) ==
    IF dumps THEN [s |-> 0, e |-> None]
    ELSE [s |-> page * MaxResults, e |-> (page + 1) * MaxResults]

\* paginatesongs(func, page, dumps=dumps, length=length, ...) with func an
\* IterSlicer sl; stored tells that sl is the object g.last_search_query
\* already holds
paginatesongs(st, sl, stored, page, dumps, length, failAt) ==
    LET s == PageRange(page, dumps).s
        e == PageRange(page, dumps).e
        splash == [Logged(st, "paginatesongs", page) EXCEPT
                     !.g.message = "loading", !.g.content = "logo",
                     !.asked = Append(@, [page |-> page, dumps |-> dumps,
                                          s |-> s, e |-> e])]
        r == GetItem(sl, s, e, failAt)
        kept == IF stored THEN r.sl ELSE st.slicer
        n == IF length = None THEN SlicerLen(r.sl, None)
             ELSE [sl |-> r.sl, res |-> length]
    IN  IF r.exc # "none"
        THEN [Raise(splash, r.exc) EXCEPT !.slicer = kept]
        ELSE [splash EXCEPT
                !.slicer = n.sl,
                !.g.last_search_query =
                    [func |-> "paginatesongs", length |-> n.res,
                     src |-> sl.src, term |-> <<>>],
                !.g.browse_mode = "normal",
                !.g.current_page = page,
                !.g.result_count = n.res,
                !.g.model = r.res,
                !.g.content = "songlist",
                !.g.message = IF r.res = <<>> THEN "failmsg" ELSE "msg"]

\* _search(progtext, qs, msg, failmsg): the backend answers the first request
\* with a total of N results, or fails (apiFails)
search_(st, src, N, apiFails, failAt) ==
    IF apiFails THEN Raise(st, "GdataError")
    ELSE LET length == Min(N, MaxApiResults)
         IN  paginatesongs(st, NewSlicer(src, N, length), FALSE, 0, FALSE, length,
                           failAt)

\* search(term)
search(st, term, N, apiFails, failAt) ==
    IF Len(term) < 2
    THEN [st EXCEPT !.g.message = "not enough input", !.g.content = "songlist"]
    ELSE search_(st, "search", N, apiFails, failAt)

\* the records of page `page` of a playlist search with T results
PlaylistPage(page, T) ==
    [k \in 1..Max(0, Min((page + 1) * MaxResults, T) - page * MaxResults) |->
        Rec("ytpl", page * MaxResults + k - 1)]

\* a pl_search that stores the page and the mode before it asks the backend
pl_search_eager(st, term, page, T, apiFails) ==
    IF Len(term) < 2
    THEN [st EXCEPT !.g.message = "not enough input", !.g.content = "songlist"]
    ELSE LET splash == [Logged(st, "pl_search", page) EXCEPT
                          !.g.message = "searching playlists",
                          !.g.content = "logo",
                          !.g.browse_mode = "ytpl",
                          !.g.current_page = page]
             playlists == PlaylistPage(page, T)
         IN  IF apiFails THEN Raise(splash, "GdataError")
             ELSE IF playlists # <<>>
             THEN [splash EXCEPT
                     !.g.last_search_query =
                         [func |-> "pl_search", length |-> None,
                          src |-> "none", term |-> term],
                     !.g.result_count = Min(T, MaxApiResults),
                     !.g.ytpls = playlists,
                     !.g.message = "playlist results",
                     !.g.content = "playlists"]
             ELSE [splash EXCEPT
                     !.g.message = "no playlists found",
                     !.g.current_page = 0,
                     !.g.content = "songlist"]

\* pl_search(term, page=page, splash=True, is_user=False): the backend holds
\* T playlists for the term; apiFails: one of the two requests fails
pl_search(st, term, page, T, apiFails) ==
    IF Len(term) < 2
    THEN [st EXCEPT !.g.message = "not enough input", !.g.content = "songlist"]
    ELSE LET splash == [Logged(st, "pl_search", page) EXCEPT
                          !.g.message = "searching playlists",
                          !.g.content = "logo"]
             playlists == PlaylistPage(page, T)
         IN  IF apiFails THEN Raise(splash, "GdataError")
             ELSE IF playlists # <<>>
             THEN [splash EXCEPT
                     !.g.last_search_query =
                         [func |-> "pl_search", length |-> None,
                          src |-> "none", term |-> term],
                     !.g.browse_mode = "ytpl",
                     !.g.current_page = page,
                     !.g.result_count = Min(T, MaxApiResults),
                     !.g.ytpls = playlists,
                     !.g.message = "playlist results",
                     !.g.content = "playlists"]
             ELSE [splash EXCEPT
                     !.g.message = "no playlists found",
                     !.g.current_page = 0,
                     !.g.content = "songlist"]

\* a nextprev that clamps 'p' at page 0 instead of refusing it
NextPage_clamped(np, page, current_page, page_count) ==
    IF np = <<"n">>
    THEN IF current_page + 1 < page_count THEN current_page + 1 ELSE None
    ELSE IF page # NoneText /\ page # <<>> /\ ToInt(page) \in 1..19
    THEN ToInt(page) - 1
    ELSE Max(current_page - 1, 0)

\* the page nextprev moves to, None when it refuses the request
\* (np, page: the two groups of the pattern; page is NoneText or digits)
NextPage(np, page, current_page, page_count) ==
    IF np = <<"n">>
    THEN IF current_page + 1 < page_count THEN current_page + 1 ELSE None
    ELSE IF page # NoneText /\ page # <<>> /\ ToInt(page) \in 1..19
    THEN ToInt(page) - 1
    ELSE IF current_page > 0 THEN current_page - 1
    ELSE None

\* function(page=g.current_page, **args) of nextprev
requery(st, failAt, T, apiFails) ==
    LET q == st.g.last_search_query
    IN  IF IsPaginated(st.g) THEN Logged(st, "getPage", st.g.current_page)
        ELSE IF q.func = "paginatesongs"
        THEN paginatesongs(st, st.slicer, TRUE, st.g.current_page, FALSE,
                           q.length, failAt)
        ELSE pl_search(st, q.term, st.g.current_page, T, apiFails)

\* nextprev(np, page)
nextprev(st, np, page, failAt, T, apiFails) ==
    LET paginated == IsPaginated(st.g)
        page_count == IF paginated THEN st.g.pages
                      ELSE Ceil(st.g.result_count, MaxResults)
        function == IF paginated THEN "getPage" ELSE st.g.last_search_query.func
        target == IF function = "None" THEN None
                  ELSE NextPage(np, page, st.g.current_page, page_count)
        good == target # None
        moved == IF good THEN [st EXCEPT !.g.current_page = target] ELSE st
        called == IF good THEN requery(moved, failAt, T, apiFails)
                  ELSE [st EXCEPT !.g.message =
                          IF np = <<"n">> THEN "no next items"
                          ELSE "no previous items"]
    IN  IF called.exc # "none" THEN called
        ELSE [called EXCEPT
                !.g.content = IF IsPaginated(called.g) THEN @ ELSE "songlist",
                !.ret = IF good THEN "True" ELSE "False"]

\* dump(un)
dump(st, un, failAt) ==
    LET q == st.g.last_search_query
    IN  IF q.func = "paginatesongs"
        THEN paginatesongs(st, st.slicer, TRUE, 0, un = NoneText, q.length,
                           failAt)
        ELSE [st EXCEPT !.g.message = "dump only on a playlist",
                        !.g.content = "songlist"]

\* g.model[x - 1] exists (Python: index -1 is the last item)
ValidIndex(g, x) == \/ 1 <= x /\ x <= Len(g.model)
                    \/ x = 0 /\ Len(g.model) >= 1

\* g.model[x - 1]
ModelItem(g, x) == IF x = 0 THEN g.model[Len(g.model)] ELSE g.model[x]

RECURSIVE Ascending(_)
\* the numbers of a set in ascending order
Ascending(nums) ==
    IF nums = {} THEN <<>>
    ELSE LET lo == CHOOSE x \in nums : \A y \in nums : x <= y
         IN  <<lo>> \o Ascending(nums \ {lo})

\* a finally clause that puts the list back only after the last download
Restored_onsuccess(temp, left, outcome) ==
    IF outcome \in {"ok", "skipped"} THEN temp ELSE left

\* g.model.songs = temp[::] of the finally clause of down_many: temp is the
\* copy taken before the downloads, left the download queue as the try block
\* leaves it
Restored(temp, left, outcome) == temp

\* g.model.songs when the try block of down_many is left: the queue
\* downsongs without the items that were downloaded or skipped
Left(g, choice, outcome) ==
    IF outcome \in {"ok", "skipped"} \/ choice = <<>> THEN <<>>
    ELSE <<ModelItem(g, choice[Len(choice)])>>

\* down_many(dltype, choice) with choice parsed to the set of numbers nums;
\* outcome: how the downloads end ("ok"; "skipped": every item fails with an
\* IOError or KeyError of _make_fname or an HTTPError of _download, handled
\* by handle_error; "interrupted": KeyboardInterrupt during the last
\* download; "ioerror": an IOError other than HTTPError leaves the last
\* _download)
down_many(st, nums, outcome) ==
    IF \E x \in nums : ~ValidIndex(st.g, x) THEN Raise(st, "IndexError")
    ELSE \* the finally clause, and the exception that passes through it
         Raise([st EXCEPT
                  !.g.model = Restored(@, Left(st.g, Ascending(nums), outcome),
                                       outcome),
                  !.g.message = CASE outcome = "interrupted" ->
                                       "downloads interrupted"
                                  [] outcome = "ok" /\ nums # {} -> "downloaded"
                                  [] OTHER -> "",
                  !.g.result_count =
                      Len(Restored(st.g.model,
                                   Left(st.g, Ascending(nums), outcome), outcome)),
                  !.g.content = "songlist"],
               IF outcome = "ioerror" THEN "IOError" ELSE "none")

\* g.meta holds an entry for the item: get_tracks_from_json stores one for
\* every search result, yt_url stores none
HasMeta(item) == item.src # "url"

\* user_more(num)
user_more(st, num, N, apiFails, failAt) ==
    IF st.g.browse_mode # "normal"
    THEN [st EXCEPT !.g.message = "must refer to a video item",
                    !.g.content = "songlist"]
    ELSE LET paged == [st EXCEPT !.g.current_page = 0]
         IN  IF ~ValidIndex(st.g, num) THEN Raise(paged, "IndexError")
             ELSE IF ~HasMeta(ModelItem(st.g, num)) THEN Raise(paged, "TypeError")
             ELSE search_(paged, "user", N, apiFails, failAt)

\* yt_url(url) with n urls in the line; failK: the first url pafy.new fails
\* on (None: every url resolves)
yt_url(st, n, failK) ==
    LET got == IF failK = None THEN n ELSE failK - 1
        songs == [k \in 1..got |-> Rec("url", k - 1)]
        filled == [st EXCEPT
                     !.g.model = songs,
                     !.g.browse_mode = IF got > 0 THEN "normal" ELSE @]
    IN  IF failK # None
        THEN [filled EXCEPT !.g.message = "error", !.g.content = ContentOr(@)]
        ELSE [filled EXCEPT !.g.content = IF st.g.command_line THEN @
                                          ELSE "songlist"]

\* play(pre, choice, post) in normal mode, without conflicting options, with
\* choice parsed to the set of numbers nums
play(st, nums) ==
    IF st.g.model = <<>>
    THEN [st EXCEPT !.g.message = "no tracks to select",
                    !.g.content = ContentOr(@)]
    ELSE IF \E x \in nums : ~ValidIndex(st.g, x) THEN Raise(st, "IndexError")
    ELSE [st EXCEPT !.g.content = "songlist"]

\* play_url(url, override) with n urls in the line; failK as for yt_url
play_url(st, n, failK) ==
    LET listed == yt_url([st EXCEPT !.g.browse_mode = "normal"], n, failK)
        played == IF Len(listed.g.model) = 1 THEN play(listed, {1}) ELSE listed
    IN  IF played.g.command_line THEN Raise(played, "SystemExit") ELSE played

\* the except clauses of matchfunction around func(*matches)
Caught == {"IndexError", "ValueError", "IOError", "GdataError"}

Contain(st) ==
    CASE st.exc = "IndexError" ->
           [st EXCEPT !.exc = "none", !.g.message = "invalid range",
                      !.g.content = ContentOr(@)]
      [] st.exc \in {"ValueError", "IOError"} ->
           [st EXCEPT !.exc = "none", !.g.message = "cant get track",
                      !.g.content = ContentOr(@)]
      [] st.exc = "GdataError" ->
           [st EXCEPT !.exc = "none", !.g.message = "no data"]
      [] OTHER -> st

\* an else branch that sets no status
no_match_quiet(st, userinput) == [st EXCEPT !.g.content = ContentOr(@)]

\* an else branch that answers 'Bad syntax' in batch mode too
no_match_interactive(st, userinput) ==
    [st EXCEPT !.g.content = ContentOr(@),
               !.g.message = IF userinput # <<>> THEN "bad syntax" ELSE @]

\* the else branch of the for loop of main()
no_match(st, userinput) ==
    LET shown == [st EXCEPT !.g.content = IF st.g.command_line THEN ""
                                          ELSE ContentOr(@)]
    IN  IF userinput = <<>> THEN shown
        ELSE IF st.g.command_line THEN Raise(shown, "SystemExit: Bad syntax")
        ELSE [shown EXCEPT !.g.message = "bad syntax"]

\* sys.exit() and sys.exit("Bad syntax") raise SystemExit
Exits == {"SystemExit", "SystemExit: Bad syntax"}

\* the exit status of the process that an exception ends: 0 for sys.exit(),
\* 1 for sys.exit(text) and for an uncaught exception
ExitStatus(exc) == IF exc = "SystemExit" THEN 0 ELSE 1

\* ------------------------------------------------------------------------
\* The startup commands
\* ------------------------------------------------------------------------

\* the text that stands for an escaped comma while the string is split
mpsyt_comma ==
    <<"[", "m", "p", "s", "y", "t", "-", "c", "o", "m", "m", "a", "]">>

IsPrefix(p, s) == Len(p) <= Len(s) /\ SubSeq(s, 1, Len(p)) = p

RECURSIVE Replace(_, _, _)
\* s.replace(old, new): every occurrence, leftmost first, not overlapping
Replace(s, old, new) ==
    IF Len(s) < Len(old) THEN s
    ELSE IF IsPrefix(old, s)
    THEN new \o Replace(SubSeq(s, Len(old) + 1, Len(s)), old, new)
    ELSE <<s[1]>> \o Replace(Tail(s), old, new)

RECURSIVE Split(_, _)
\* s.split(sep) for a separator of one character
Split(s, sep) ==
    IF \A k \in DOMAIN s : s[k] # sep THEN <<s>>
    ELSE LET i == CHOOSE k \in DOMAIN s :
                    s[k] = sep /\ \A j \in 1..(k - 1) : s[j] # sep
         IN  <<SubSeq(s, 1, i - 1)>> \o Split(SubSeq(s, i + 1, Len(s)), sep)

RECURSIVE Strip(_)
\* s.strip()
Strip(s) ==
    IF s = <<>> THEN s
    ELSE IF s[1] \in Space THEN Strip(Tail(s))
    ELSE IF s[Len(s)] \in Space THEN Strip(SubSeq(s, 1, Len(s) - 1))
    ELSE s

\* arg_inp as main() builds it from the startup string
\* ' '.join(g.argument_commands)
ParseArgs(text) == Split(Replace(text, <<",", ",">>, mpsyt_comma), ",")

\* next_inp for the element main() pops from arg_inp
NextInp(popped) == Replace(Strip(popped), mpsyt_comma, <<",">>)

\* ------------------------------------------------------------------------
\* State
\* ------------------------------------------------------------------------

VARIABLES
    g,       \* the browse session (module g)
    slicer,  \* the IterSlicer g.last_search_query refers to
    pc,      \* "await": main() is at the top of its loop; "prompt": it waits
             \* at input(prompt) with its queue used up; "confirm": it waits
             \* at the input() of prompt_for_exit; "exited": SystemExit
             \* ended the process; "crashed": another exception left main()
    cycle,   \* what the last handling cycle of main() did: the line read,
             \* the bindings (positions in g.commands) whose handler was
             \* invoked, the handler's return value, the repeatable queries
             \* it invoked, the exception that left the handler, where the
             \* line was read from ("queue" or "prompt"), whether a handler
             \* of a startup command has ended in an exception and, for a
             \* handler that an exception left, the session as it was when
             \* the handler entered its last repeatable query; the frames
             \* main() drew at its end and the ranges paginatesongs asked of
             \* its source
    g_commands, \* the registry: (regex, function) in registration order
    arg_inp, \* the startup commands main() has not yet taken from its queue
    req      \* the last request made of the IterSlicer (IterSlicer specification)

vars == <<g, slicer, pc, cycle, g_commands, arg_inp, req>>

NoCycle ==
    [handled |-> FALSE, userinput |-> <<>>, dispatched |-> <<>>,
     ret |-> "None", log |-> <<>>, exc |-> "none", pre |-> Session(InitG),
     read |-> "prompt", failed |-> FALSE, screen |-> <<>>, asked |-> <<>>,
     again |-> FALSE]

\* a handling cycle that asked the ranges `asked` came right after a cycle
\* that returned and asked the same
Again(asked) ==
    /\ asked # <<>>
    /\ cycle.handled
    /\ cycle.exc = "none"
    /\ cycle.asked = asked

\* what screen.update() draws: the message and the content of the session
Frame(s) == [message |-> s.message, content |-> s.content]

\* a loop of main() that redraws only in the else branch of its for loop
EndRender_else(c, calls) ==
    IF c.exc = "none" /\ calls = <<>> THEN <<Frame(c.g)>> ELSE <<>>

\* the frames main() draws at the end of a pass of its loop that ends with
\* machine state c: screen.update() is its last statement, which an
\* exception leaving the dispatch does not reach
EndRender(c, calls) == IF c.exc = "none" THEN <<Frame(c.g)>> ELSE <<>>

\* op: "getitem" or "len"; s, e: the slice asked for; res: the records
\* returned; n: the length returned; exc: the exception raised; before: the
\* IterSlicer as it was before the request; late: as Fill tells
NoReq == [op |-> "none", s |-> 0, e |-> 0, res |-> <<>>, n |-> None,
          exc |-> "none", before |-> NoSlicer, late |-> FALSE]

\* ------------------------------------------------------------------------
\* Input lines
\* ------------------------------------------------------------------------

I_n == <<"n">>

I_p == <<"p">>

I_p2 == <<"p", "2">>

I_p4 == <<"p", " ", "4">>

I_search == <<"/", "a", "a">>

I_pl_search == <<"/", "/", "a", "a">>

I_da == <<"d", "a", " ", "1", " ", "2">>

I_u1 == <<"u", " ", "1">>

I_u9 == <<"u", "9">>

I_url == <<"u", "r", "l", " ", "a", "a", "a", "a", "a", "a", "a", "a", "a", "a", "a">>

I_playurl == <<"p", "l", "a", "y", "u", "r", "l", " ",
               "a", "a", "a", "a", "a", "a", "a", "a", "a", "a", "a">>

I_junk == <<"n", " ", "x">>

\* 'url' with two urls
I_url2 == I_url \o <<" ">> \o SubSeq(I_url, 5, 15)

I_dump == <<"d", "u", "m", "p">>

I_undump == <<"u", "n", "d", "u", "m", "p">>

I_empty == <<>>

\* the lines typed at the prompt (input(prompt).strip())
Inputs == {I_n, I_p, I_p2, I_p4, I_search, I_pl_search, I_da, I_u1, I_u9,
           I_url, I_playurl, I_junk, I_empty}

\* the lines typed at the prompts, as input() returns them
TypedRaw ==
    {I_n, I_p, I_search, I_da, I_junk, I_empty, <<" ">> \o I_n, I_dump, I_undump,
     I_url2}

Pool == <<"A", "B", "C", "nextprev", "quits">>

\* the registries g.commands is drawn from: the program's, and every
\* registration order of two or three bindings of Pool
RegistrySet ==
    {Registry}
    \cup {<<Pool[a], Pool[b]>> : a, b \in DOMAIN Pool}
    \cup {<<Pool[a], Pool[b], Pool[c]>> : a, b, c \in DOMAIN Pool}

J_play3 == <<"p", "l", "a", "y", " ", "3">>

J_playall == <<"p", "l", "a", "y", " ", "a", "l", "l">>

J_play == <<"p", "l", "a", "y">>

J_play3x == <<"p", "l", "a", "y", " ", "3", "x">>

J_quit == <<"q", "u", "i", "t">>

RegInputs ==
    {J_play3, J_playall, J_play, J_play3x, I_n, I_p2, I_junk, J_quit, <<"q">>}

\* what the loop of main() does with line u under the registry cmds:
\* calls, the bindings whose handler it invokes, and m, the match of the first
Resolve(cmds, u) ==
    LET calls == Dispatch(cmds, 1, u)
    IN  [calls |-> calls,
         m |-> IF calls = <<>> THEN [ok |-> FALSE, p |-> 0, g |-> NoGroups]
               ELSE ReMatch(RegexOf(cmds[calls[1]]), u)]

\* Resolve under the program's registry, tabulated once (@@ yields the
\* table as an explicit function)
Resolved == [u \in Inputs \cup TypedRaw |-> Resolve(Registry, u)] @@ <<>>

\* Resolve under the program's registry for any line
Lookup(u) ==
    IF u \in Inputs \cup TypedRaw THEN Resolved[u] ELSE Resolve(Registry, u)

\* the lines the program's registry dispatches to each function first, and
\* under "" those it dispatches to none
LinesOf ==
    [f \in {Registry[k] : k \in DOMAIN Registry} \cup {""} |->
       {u \in Inputs :
          IF Resolved[u].calls = <<>> THEN f = ""
          ELSE Registry[Resolved[u].calls[1]] = f}] @@ <<>>

\* group n of the match that dispatched u
Arg(u, n) == GroupText(Resolved[u].m, u, n)

\* ------------------------------------------------------------------------
\* The main loop: one action per handling cycle and handler
\* ------------------------------------------------------------------------

Start == [g |-> g, slicer |-> slicer, log |-> <<>>, exc |-> "none",
          ret |-> "None", pre |-> Session(g), asked |-> <<>>]

\* the end of a handling cycle: matchfunction's except clauses, then either
\* the loop goes on or the exception leaves main()
Finish(u, out) ==
    LET c == Contain(out)
    IN  /\ g' = c.g
        /\ slicer' = c.slicer
        /\ pc' = IF c.exc = "none" THEN "await"
                 ELSE IF c.exc \in Exits THEN "exited" ELSE "crashed"
        /\ cycle' = [handled |-> TRUE, userinput |-> u,
                     dispatched |-> Resolved[u].calls,
                     ret |-> out.ret, log |-> out.log, exc |-> out.exc,
                     pre |-> IF out.exc = "none" THEN Session(InitG) ELSE out.pre,
                     read |-> "prompt", failed |-> FALSE,
                     screen |-> EndRender(c, Resolved[u].calls),
                     asked |-> out.asked, again |-> Again(out.asked)]
        /\ UNCHANGED <<g_commands, arg_inp, req>>

\* the totals the backend reports for a query
Totals == {0, 1, MaxN}

Init ==
    /\ g = InitG
    /\ slicer = NoSlicer
    /\ pc = "await"
    /\ cycle = NoCycle
    /\ g_commands = Registry
    /\ req = NoReq
    /\ arg_inp = <<>>

DoSearch ==
    /\ pc = "await"
    /\ \E u \in LinesOf["search"] :
         \E N \in Totals :
              \/ Finish(u, search(Start, Arg(u, 1), N, TRUE, None))
              \/ \E failAt \in FailPoints(NewSlicer("search", N, N), MaxResults) :
                    Finish(u, search(Start, Arg(u, 1), N, FALSE, failAt))

DoPlSearch ==
    /\ pc = "await"
    /\ \E u \in LinesOf["pl_search"] :
         \/ Finish(u, pl_search(Start, Arg(u, 1), 0, 0, TRUE))
            \/ \E T \in Totals :
                  Finish(u, pl_search(Start, Arg(u, 1), 0, T, FALSE))

RECURSIVE Numbers(_)
\* util.parse_multi for a choice of numbers separated by blanks or commas
Numbers(text) ==
    IF text = <<>> THEN {}
    ELSE LET i == CHOOSE k \in 1..(Len(text) + 1) :
                    /\ k = Len(text) + 1 \/ text[k] \notin Digits
                    /\ \A j \in 1..(k - 1) : text[j] \in Digits
         IN  (IF i > 1 THEN {ToInt(SubSeq(text, 1, i - 1))} ELSE {})
             \cup Numbers(SubSeq(text, i + 1, Len(text)))

DoDownMany ==
    /\ pc = "await"
    /\ \E u \in LinesOf["down_many"] :
         \E outcome \in {"ok", "skipped", "interrupted", "ioerror"} :
              Finish(u, down_many(Start, Numbers(Arg(u, 2)), outcome))

DoNextPrev ==
    /\ pc = "await"
    /\ \E u \in LinesOf["nextprev"] :
         IF g.last_search_query.func = "pl_search" /\ ~IsPaginated(g)
            THEN \/ Finish(u, nextprev(Start, Arg(u, 1), Arg(u, 2), None, 0, TRUE))
                 \/ \E T \in Totals :
                       Finish(u, nextprev(Start, Arg(u, 1), Arg(u, 2), None, T, FALSE))
            ELSE \E failAt \in FailPoints(slicer, None) :
                    Finish(u, nextprev(Start, Arg(u, 1), Arg(u, 2), failAt, 0, FALSE))

DoUserMore ==
    /\ pc = "await"
    /\ \E u \in LinesOf["user_more"] :
         \E N \in Totals :
              \/ Finish(u, user_more(Start, ToInt(Arg(u, 1)), N, TRUE, None))
              \/ \E failAt \in FailPoints(NewSlicer("user", N, N), MaxResults) :
                    Finish(u, user_more(Start, ToInt(Arg(u, 1)), N, FALSE, failAt))

DoYtUrl ==
    /\ pc = "await"
    /\ \E u \in LinesOf["yt_url"] :
         \E failK \in {None, 1} :
              Finish(u, yt_url(Start, 1, failK))

DoPlayUrl ==
    /\ pc = "await"
    /\ \E u \in LinesOf["play_url"] :
         \E failK \in {None, 1} :
              Finish(u, play_url(Start, 1, failK))

NoMatch ==
    /\ pc = "await"
    /\ \E u \in LinesOf[""] :
         Finish(u, no_match(Start, u))

Next == DoSearch \/ DoPlSearch \/ DoDownMany \/ DoNextPrev \/ DoUserMore
        \/ DoPlayUrl \/ DoYtUrl \/ NoMatch

Spec == Init /\ [][Next]_vars

\* ------------------------------------------------------------------------
\* The dispatch loop over any registry
\* ------------------------------------------------------------------------

InitReg ==
    /\ g = InitG
    /\ slicer = NoSlicer
    /\ pc = "await"
    /\ cycle = NoCycle
    /\ g_commands \in RegistrySet
    /\ req = NoReq
    /\ arg_inp = <<>>

\* one cycle of main() whose handlers only record that they were invoked
Handled(u) ==
    LET calls == Resolve(g_commands, u).calls
    IN  /\ cycle' = [handled |-> TRUE, userinput |-> u,
                     dispatched |-> calls,
                     ret |-> "None", log |-> <<>>, exc |-> "none",
                     pre |-> Session(InitG), read |-> "prompt",
                     failed |-> FALSE, screen |-> <<Frame(g)>>,
                     asked |-> <<>>, again |-> FALSE]
        /\ g' = IF calls = <<>> THEN no_match(Start, u).g ELSE g
        /\ UNCHANGED <<slicer, pc, g_commands, arg_inp, req>>

RegMatch ==
    \E u \in RegInputs : Resolve(g_commands, u).calls # <<>> /\ Handled(u)

RegNoMatch ==
    \E u \in RegInputs : Resolve(g_commands, u).calls = <<>> /\ Handled(u)

NextReg == RegMatch \/ RegNoMatch

SpecReg == InitReg /\ [][NextReg]_vars

\* ------------------------------------------------------------------------
\* An IterSlicer under any sequence of requests
\* ------------------------------------------------------------------------

InitSlicer ==
    /\ g = InitG
    /\ pc = "await"
    /\ cycle = NoCycle
    /\ g_commands = Registry
    /\ req = NoReq
    /\ arg_inp = <<>>
    /\ \E N \in 0..MaxN, declared \in BOOLEAN :
         slicer = NewSlicer("search", N, IF declared THEN N ELSE None)

\* self[s:e]
Slice ==
    \E s \in 0..MaxIdx, e \in (0..MaxIdx) \cup {None} :
      \E failAt \in FailPoints(slicer, e) :
        LET r == GetItem(slicer, s, e, failAt)
        IN  /\ slicer' = r.sl
            /\ req' = [op |-> "getitem", s |-> s, e |-> e, res |-> r.res,
                       n |-> None, exc |-> r.exc, before |-> slicer,
                       late |-> r.late]
            /\ UNCHANGED <<g, pc, cycle, g_commands, arg_inp>>

\* len(self)
Length ==
    \E failAt \in FailPoints(slicer, None) :
      LET r == SlicerLen(slicer, failAt)
      IN  /\ slicer' = r.sl
          /\ req' = [op |-> "len", s |-> 0, e |-> None, res |-> <<>>,
                     n |-> r.res, exc |-> r.exc, before |-> slicer,
                     late |-> r.late]
          /\ UNCHANGED <<g, pc, cycle, g_commands, arg_inp>>

NextSlicer == Slice \/ Length

SpecSlicer == InitSlicer /\ [][NextSlicer]_vars

\* ------------------------------------------------------------------------
\* The startup phase of main(): from its first pass of the loop until the
\* queue of startup commands is used up or the process ends
\* ------------------------------------------------------------------------

\* largest number of commands in a startup string made by EncodeArgs
MaxCmds == 2

\* largest length of such a command
MaxCmdLen == 2

RECURSIVE Join(_, _)
\* sep.join(parts)
Join(parts, sep) ==
    IF parts = <<>> THEN <<>>
    ELSE IF Len(parts) = 1 THEN parts[1]
    ELSE parts[1] \o sep \o Join(Tail(parts), sep)

\* the startup string someone writes for a list of commands: each comma of a
\* command doubled, the commands joined by single commas
EncodeArgs(cmds) ==
    Join([k \in DOMAIN cmds |-> Replace(cmds[k], <<",">>, <<",", ",">>)], <<",">>)

SeqsUpTo(chars, n) == UNION {[1..k -> chars] : k \in 1..n}

\* lists of commands: texts over a letter and the comma, and the text main()
\* uses for an escaped comma
CmdLists ==
    SeqsUpTo(SeqsUpTo({"a", ","}, MaxCmdLen) \cup {mpsyt_comma}, MaxCmds)

\* the startup strings of the model
StartupTexts ==
    {EncodeArgs(cmds) : cmds \in CmdLists}
    \cup {I_search \o <<",">> \o I_n,
          I_search \o <<",">> \o I_da,
          I_search \o <<",", " ", ",">> \o I_n,
          I_junk \o <<",">> \o I_search,
          I_playurl \o <<",">> \o I_search,
          I_url \o <<",">> \o I_u1,
          <<"/", "a", ",", ",", "a", ",">> \o I_p,
          <<>>}

\* the lines typed at a prompt that appears during the startup phase
Typed == {I_n, I_junk}

\* the commands the elements of a queue stand for, in order
Commands(queue) ==
    SelectSeq([k \in DOMAIN queue |-> NextInp(queue[k])], LAMBDA x : x # <<>>)

InitBatch ==
    /\ \E text \in StartupTexts, command_line \in BOOLEAN :
         /\ g = [InitG EXCEPT !.command_line = command_line,
                              !.argument_commands = text,
                              !.message = IF command_line THEN "" ELSE @,
                              !.content = IF command_line THEN "" ELSE @]
         /\ arg_inp = ParseArgs(text)
    /\ slicer = NoSlicer
    /\ pc = "await"
    /\ cycle = NoCycle
    /\ g_commands = Registry
    /\ req = NoReq

\* len(url.split()): the number of maximal runs of non-blank characters
UrlCount(text) ==
    Cardinality({k \in DOMAIN text :
                   /\ text[k] \notin Space
                   /\ (k = 1 \/ text[k - 1] \in Space)})

\* what the handler bound to line u can leave behind, for every answer of
\* the backend; r is the outcome of the dispatch of u
Results(r, u) ==
    LET f == IF r.calls = <<>> THEN "" ELSE Registry[r.calls[1]]
        A(n) == GroupText(r.m, u, n)
    IN  CASE f = "search" ->
               {search(Start, A(1), 0, TRUE, None)}
               \cup UNION {{search(Start, A(1), N, FALSE, failAt) :
                              failAt \in FailPoints(NewSlicer("search", N, N),
                                                    MaxResults)} : N \in Totals}
          [] f = "pl_search" ->
               {pl_search(Start, A(1), 0, T, FALSE) : T \in Totals}
          [] f = "down_many" ->
               {down_many(Start, Numbers(A(2)), "ok")}
          [] f = "nextprev" ->
               {nextprev(Start, A(1), A(2), failAt, 0, FALSE) :
                  failAt \in FailPoints(slicer, None)}
          [] f = "user_more" ->
               {user_more(Start, ToInt(A(1)), N, FALSE, None) : N \in Totals}
          [] f = "play_url" ->
               {play_url(Start, 1, failK) : failK \in {None, 1}}
          [] f = "yt_url" ->
               {yt_url(Start, UrlCount(A(1)), failK) :
                  failK \in {None} \cup (1..UrlCount(A(1)))}
          [] f = "dump" ->
               {dump(Start, A(1), failAt) : failAt \in FailPoints(slicer, None)}
          [] OTHER -> {no_match(Start, u)}

\* what the handler bound to line u leaves behind when KeyboardInterrupt
\* arrives while it runs: down_many catches it around its downloads, search
\* does not (it arrives in the request of _search to the backend)
Interrupted(r, u) ==
    LET f == IF r.calls = <<>> THEN "" ELSE Registry[r.calls[1]]
        A(n) == GroupText(r.m, u, n)
    IN  CASE f = "search" ->
               IF Len(A(1)) < 2 THEN {}
               ELSE {Raise(Start, "KeyboardInterrupt")}
          [] f = "down_many" ->
               {down_many(Start, Numbers(A(2)), "interrupted")}
          [] OTHER -> {}

\* the rest of a pass of the loop of main() once line u has been read from
\* `read`; interruptible: KeyboardInterrupt may arrive while the handler runs
Cycle(u, read, interruptible) ==
    \E r \in {Lookup(u)} :
    \E out \in Results(r, u) \cup
               (IF interruptible THEN Interrupted(r, u) ELSE {}) :
       LET c == Contain(out)
       IN  /\ g' = c.g
           /\ slicer' = c.slicer
           /\ pc' = IF c.exc = "none" THEN "await"
                    ELSE IF c.exc \in Exits THEN "exited" ELSE "crashed"
           /\ cycle' = [handled |-> TRUE, userinput |-> u,
                        dispatched |-> r.calls,
                        ret |-> out.ret, log |-> out.log, exc |-> out.exc,
                        pre |-> IF out.exc = "none" THEN Session(InitG)
                                ELSE out.pre,
                        read |-> read,
                        failed |-> cycle.failed \/ out.exc \in Caught,
                        screen |-> EndRender(c, r.calls),
                        asked |-> out.asked, again |-> Again(out.asked)]
           /\ UNCHANGED <<g_commands, req>>

\* one pass of the loop of main() that takes an element from the queue and
\* handles line u, read from `read`
Pass(u, read) == Cycle(u, read, FALSE) /\ arg_inp' = Tail(arg_inp)

\* next_inp = arg_inp.pop(0)...; userinput = next_inp
TakeQueued ==
    /\ pc = "await"
    /\ arg_inp # <<>>
    /\ NextInp(Head(arg_inp)) # <<>>
    /\ Pass(NextInp(Head(arg_inp)), "queue")

\* next_inp is empty: userinput = input(prompt).strip()
ReadTyped ==
    /\ pc = "await"
    /\ arg_inp # <<>>
    /\ NextInp(Head(arg_inp)) = <<>>
    /\ \E u \in Typed : Pass(u, "prompt")

\* the queue is used up: main() waits at input(prompt)
Prompt ==
    /\ pc = "await"
    /\ arg_inp = <<>>
    /\ pc' = "prompt"
    /\ cycle' = [cycle EXCEPT !.handled = FALSE]
    /\ UNCHANGED <<g, slicer, g_commands, arg_inp, req>>

NextBatch == TakeQueued \/ ReadTyped \/ Prompt

SpecBatch == InitBatch /\ [][NextBatch]_vars

\* ------------------------------------------------------------------------
\* The interactive loop of main() with interrupts (KeyboardInterrupt or, at
\* a prompt, EOFError)
\* ------------------------------------------------------------------------

\* a prompt_for_exit that ends the session at once
prompt_for_exit_quits(st) == Raise(st, "SystemExit")

\* prompt_for_exit() up to its input()
prompt_for_exit(st) ==
    [st EXCEPT !.g.message = "press ctrl-c again to exit",
               !.g.content = "songlist"]

\* quits(showlogo=False): screen.msgexit ends the process
quits(st) == Raise(st, "SystemExit")

\* userinput = input(prompt).strip(), then the handling cycle
ReadLine ==
    /\ pc = "await"
    /\ \E raw \in TypedRaw : \E u \in {Strip(raw)} : Cycle(u, "prompt", TRUE)
    /\ UNCHANGED arg_inp

\* input(prompt) raises KeyboardInterrupt or EOFError: prompt_for_exit()
Interrupt ==
    /\ pc = "await"
    /\ LET out == prompt_for_exit(Start)
       IN  /\ g' = out.g
           /\ pc' = IF out.exc = "none" THEN "confirm" ELSE "exited"
           /\ cycle' = [cycle EXCEPT !.handled = FALSE, !.read = "interrupt",
                                     !.exc = out.exc,
                                     !.screen = <<Frame(out.g)>>]
    /\ UNCHANGED <<slicer, g_commands, arg_inp, req>>

\* the input() of prompt_for_exit returns a line: main() handles it
ConfirmLine ==
    /\ pc = "confirm"
    /\ \E raw \in TypedRaw : Cycle(raw, "confirm", TRUE)
    /\ UNCHANGED arg_inp

\* the input() of prompt_for_exit raises KeyboardInterrupt or EOFError
ConfirmInterrupt ==
    /\ pc = "confirm"
    /\ LET out == quits(Start)
       IN  /\ g' = out.g
           /\ pc' = IF out.exc \in Exits THEN "exited" ELSE "await"
           /\ cycle' = [cycle EXCEPT !.handled = FALSE, !.read = "interrupt",
                                     !.exc = out.exc]
    /\ UNCHANGED <<slicer, g_commands, arg_inp, req>>

NextPrompt == ReadLine \/ Interrupt \/ ConfirmLine \/ ConfirmInterrupt

SpecPrompt == Init /\ [][NextPrompt]_vars

\* ------------------------------------------------------------------------
\* get_tracks_from_json over pages of search results
\* ------------------------------------------------------------------------

\* largest number of items in a page
MaxItems == 4

\* the items of a page: "ok" is well formed; in "null_title" the title of
\* the snippet is null, so that title.strip() raises before Video(...) is
\* built; in "bad_likes" likeCount is no number, so that int(...) raises
\* after cursong has been assigned
ItemKinds == {"ok", "null_title", "bad_likes"}

Pages == SeqsUpTo(ItemKinds, MaxItems)

RECURSIVE TracksLoop(_, _, _, _)
\* the for loop of get_tracks_from_json from item k on; songs holds the
\* positions of the items whose Video was appended, cursong the local
\* variable of that name (None: not yet bound)
TracksLoop(items, k, songs, cursong) ==
    IF k > Len(items) THEN [songs |-> songs, exc |-> "none"]
    ELSE LET cur == IF items[k] = "null_title" THEN cursong ELSE k
         IN  IF cur = None
             THEN [songs |-> <<>>, exc |-> "UnboundLocalError"]
             ELSE TracksLoop(items, k + 1, Append(songs, cur), cur)

\* get_tracks_from_json(jsons) for the items of jsons
get_tracks_from_json(items) == TracksLoop(items, 1, <<>>, None)

\* one call of get_tracks_from_json
GetTracks ==
    /\ \E items \in Pages :
         LET r == get_tracks_from_json(items)
         IN  req' = [op |-> "tracks", items |-> items, res |-> r.songs,
                     exc |-> r.exc]
    /\ UNCHANGED <<g, slicer, pc, cycle, g_commands, arg_inp>>

SpecTracks == Init /\ [][GetTracks]_vars

\* ------------------------------------------------------------------------
\* Claims
\* ------------------------------------------------------------------------

\* the bindings of cmds whose pattern fully matches u
FullMatchers(cmds, u) ==
    {k \in DOMAIN cmds : matchfunction(RegexOf(cmds[k]), u)}

\* the bindings of cmds whose pattern matches a strict prefix of u only
PrefixMatchers(cmds, u) ==
    {k \in DOMAIN cmds : LET m == ReMatch(RegexOf(cmds[k]), u)
                         IN  m.ok /\ m.p < Len(u)}

Invoked == {cycle.dispatched[k] : k \in DOMAIN cycle.dispatched}

\* C1: for every input line the loop invokes exactly the handler of the first
\* binding, in registration order, whose pattern fully matches, and no other:
\* at most one handler per line, none when no binding fully matches.
C1_FirstMatchWins ==
    cycle.handled =>
       LET F == FullMatchers(g_commands, cycle.userinput)
       IN  IF F = {} THEN cycle.dispatched = <<>>
           ELSE /\ Len(cycle.dispatched) = 1
                /\ cycle.dispatched[1] \in F
                /\ \A k \in F : cycle.dispatched[1] <= k

\* a line that fully matches two bindings of different functions went to the
\* one registered first
C1_Witness ==
    /\ cycle.handled
    /\ \E j, k \in FullMatchers(g_commands, cycle.userinput) :
         /\ j < k
         /\ g_commands[j] # g_commands[k]
         /\ cycle.dispatched = <<j>>

\* C2: a binding whose pattern matches only a strict prefix of the line is
\* never invoked, and the line resolves to no-match when no binding fully
\* matches it.
C2_FullMatchOnly ==
    cycle.handled =>
       /\ Invoked \cap PrefixMatchers(g_commands, cycle.userinput) = {}
       /\ FullMatchers(g_commands, cycle.userinput) = {} => cycle.dispatched = <<>>

\* a valid command followed by text outside the grammar resolved to no-match
C2_Witness ==
    /\ cycle.handled
    /\ PrefixMatchers(g_commands, cycle.userinput) # {}
    /\ FullMatchers(g_commands, cycle.userinput) = {}
    /\ cycle.dispatched = <<>>

\* C3: no failure of a handler leaves main(): after every handling cycle the
\* loop is back at await-input.
C3_FailureContained == pc # "crashed"

\* C4: a line that matches no binding invokes no handler, leaves the browse
\* session unchanged, sets the 'Bad syntax' status and returns to await-input.
C4_NoMatchBadSyntax ==
    [][cycle'.dispatched = <<>> =>
         /\ cycle'.log = <<>>
         /\ Session(g') = Session(g)
         /\ g'.message = "bad syntax"
         /\ pc' = "await"]_vars

\* C4 as amended: the same for every non-empty line that matches no binding
C4_NoMatchNonEmpty ==
    [][(cycle'.dispatched = <<>> /\ cycle'.userinput # <<>>) =>
         /\ cycle'.log = <<>>
         /\ Session(g') = Session(g)
         /\ g'.message = "bad syntax"
         /\ pc' = "await"]_vars

\* a non-empty line was answered with 'Bad syntax' while a listing is shown
C4_Witness ==
    /\ cycle.handled
    /\ cycle.dispatched = <<>>
    /\ cycle.userinput # <<>>
    /\ g.message = "bad syntax"
    /\ g.model # <<>>

\* C5: a slice request [s:e] pulls the generator only for indices in
\* [len(memo), e): afterwards the memo holds no record of index e or beyond
\* that it did not hold before (so [0:k] twice pulls at most k records).
C5_NoPullBeyondStop ==
    (req.op = "getitem" /\ req.e # None) =>
       Len(slicer.ilist) <= Max(Len(req.before.ilist), req.e)

\* the records with indices s .. min(e, N) - 1 of source src
Expected(src, N, s, e) ==
    LET hi == IF e = None THEN N ELSE Min(e, N)
    IN  [k \in 1..(hi - s) |-> Rec(src, s + k - 1)]

\* C6: over a source of N records every slice request [s:e], in whatever
\* order the requests come, returns exactly the records s .. min(e, N) - 1 in
\* source order and does not raise; e = None stands for N.
C6_SliceExact ==
    (req.op = "getitem" /\ slicer.gen # "raised") =>
       /\ req.exc = "none"
       /\ req.res = Expected(slicer.src, slicer.N, req.s, req.e)

\* an earlier page was asked for after a later one had been pulled
C6_Witness ==
    /\ req.op = "getitem"
    /\ req.s = 0
    /\ req.e # None
    /\ Len(req.before.ilist) > req.e + 1
    /\ req.res # <<>>
    /\ slicer.gen # "raised"

PageCount == Ceil(g.result_count, MaxResults)

\* C7: whenever a listing with a known, non-zero total is loaded,
\* 0 <= g.current_page < ceil(g.result_count / max_results).
\* (An empty result set has no page at all and is left out.)
C7_PageInRange ==
    (g.last_search_query.func # "None" /\ g.result_count > 0) =>
       (0 <= g.current_page /\ g.current_page < PageCount)

\* the line is 'p <number>' with a number nextprev takes as a page
IsGoto(u) ==
    /\ u \in LinesOf["nextprev"]
    /\ Arg(u, 1) = <<"p">>
    /\ Arg(u, 2) # NoneText
    /\ ToInt(Arg(u, 2)) \in 1..19

\* C8: 'p <number>' with a target page at or beyond the page count is
\* rejected: no query is re-invoked and g.current_page keeps its value.
C8_GotoBeyondRejected ==
    [][(IsGoto(cycle'.userinput) /\ ToInt(Arg(cycle'.userinput, 2)) - 1 >= PageCount) =>
         /\ cycle'.log = <<>>
         /\ g'.current_page = g.current_page]_vars

\* C9: 'p' without a number at page 0 is rejected: nextprev returns False,
\* no query is re-invoked, page and displayed lists stay as they are, and the
\* status is 'No previous items to display'.
C9_PrevAtZeroRejected ==
    [][(cycle'.userinput = I_p /\ g.current_page = 0) =>
         /\ cycle'.ret = "False"
         /\ cycle'.log = <<>>
         /\ g'.current_page = 0
         /\ g'.model = g.model
         /\ g'.ytpls = g.ytpls
         /\ g'.message = "no previous items"]_vars

\* 'p' was refused at page 0 of a loaded listing of more than one page
C9_Witness ==
    /\ cycle.userinput = I_p
    /\ cycle.ret = "False"
    /\ g.message = "no previous items"
    /\ g.current_page = 0
    /\ g.last_search_query.func # "None"
    /\ PageCount > 1

\* the list shown holds the records of page `page`, in order
ShowsPage(s, page) ==
    LET shown == IF s.browse_mode = "ytpl" THEN s.ytpls ELSE s.model
    IN  /\ shown # <<>>
        /\ \A k \in DOMAIN shown : shown[k].i = page * MaxResults + k - 1

\* C10: 'n' is accepted exactly when g.current_page + 1 < ceil(g.result_count
\* / max_results); accepted, the stored query is re-invoked once with the next
\* page and the displayed list becomes that page's records; rejected, page,
\* lists, mode and stored query stay and the status is 'No next items'.
C10_NextPage ==
    [][cycle'.userinput = I_n =>
         IF g.current_page + 1 < PageCount
         THEN /\ cycle'.log = <<[f |-> g.last_search_query.func,
                                 page |-> g.current_page + 1]>>
              /\ g'.current_page = g.current_page + 1
              /\ ShowsPage(g', g.current_page + 1)
         ELSE /\ cycle'.log = <<>>
              /\ Session(g') = Session(g)
              /\ g'.message = "no next items"]_vars

\* C11: when the stored query that a next / previous / go-to-page command
\* re-invokes raises, g.current_page, g.model, g.browse_mode and
\* g.result_count keep the values they had before the command, and the error
\* is shown as a status message.
C11_FailedNavigationKeepsPage ==
    [][(cycle'.userinput \in LinesOf["nextprev"] /\ cycle'.log # <<>>
          /\ cycle'.exc # "none") =>
         /\ g'.current_page = g.current_page
         /\ g'.model = g.model
         /\ g'.browse_mode = g.browse_mode
         /\ g'.result_count = g.result_count
         /\ g'.message = "no data"
         /\ pc' = "await"]_vars

\* C12: when the fetch inside paginatesongs or pl_search raises, none of
\* g.last_search_query, g.current_page, g.result_count, g.model, g.ytpls and
\* g.browse_mode has changed since the function was entered.
C12_AtomicReplacement ==
    (cycle.handled /\ cycle.log # <<>> /\ cycle.exc # "none") =>
       Session(g) = cycle.pre

\* a fetch failed inside a query that was to replace a loaded listing
C12_Witness ==
    /\ cycle.handled
    /\ cycle.log # <<>>
    /\ cycle.exc = "GdataError"
    /\ g.last_search_query.func # "None"
    /\ Session(g) = cycle.pre

\* the lines of the commands that select items of g.model by index
IndexLines == LinesOf["down_many"] \cup LinesOf["user_more"]

\* C13: a command that selects items of the normal list by index is rejected
\* with a status message when g.browse_mode is not 'normal': it neither
\* indexes into g.model (no index is looked up, so none is out of range and
\* nothing is downloaded) nor changes the listing.
C13_RejectedOutsideNormalMode ==
    [][(cycle'.userinput \in IndexLines /\ g.browse_mode # "normal") =>
         /\ cycle'.exc = "none"
         /\ g'.message = "must refer to a video item"
         /\ Session(g') = Session(g)]_vars

\* C14: the stored query is the one that produced the displayed list: in
\* normal mode every item of g.model comes from the source that
\* g.last_search_query pages through, in playlist mode the playlists shown
\* come from the stored playlist search.
C14_QueryProducedListing ==
    IF g.browse_mode = "normal"
    THEN \A k \in DOMAIN g.model :
            /\ g.last_search_query.func = "paginatesongs"
            /\ g.model[k].src = g.last_search_query.src
    ELSE g.ytpls # <<>> => g.last_search_query.func = "pl_search"

\* C15: when the index a command selects is outside the displayed list, the
\* IndexError is turned into the status 'invalid range' and the listing
\* fields of the session (page, total, mode, stored query, lists) keep their
\* values.
C15_IndexErrorFrame ==
    [][cycle'.exc = "IndexError" =>
         /\ g'.message = "invalid range"
         /\ pc' = "await"
         /\ Session(g') = Session(g)]_vars

\* C16: in batch mode (g.command_line set) a non-empty line that matches no
\* binding ends the process with sys.exit('Bad syntax'), a failure exit
\* status, instead of returning to await-input.
C16_BatchNoMatchExits ==
    [][(cycle'.handled /\ g.command_line /\ cycle'.userinput # <<>>
          /\ cycle'.dispatched = <<>>) =>
         /\ pc' = "exited"
         /\ cycle'.exc = "SystemExit: Bad syntax"
         /\ ExitStatus(cycle'.exc) # 0]_vars

\* a startup command that matches no binding ended a batch run
C16_Witness ==
    /\ g.command_line
    /\ cycle.handled
    /\ cycle.read = "queue"
    /\ cycle.userinput = I_junk
    /\ cycle.dispatched = <<>>
    /\ pc = "exited"
    /\ ExitStatus(cycle.exc) = 1

\* C17: in batch mode, once the handler of a startup command has ended in an
\* error, the process neither returns to an interactive prompt nor crashes,
\* and when it ends its exit status is not zero.
C17_BatchErrorExitsNonZero ==
    (g.command_line /\ cycle.failed) =>
       /\ pc \notin {"prompt", "crashed"}
       /\ pc = "exited" => ExitStatus(cycle.exc) # 0

\* C18: the startup commands are taken first-in-first-out, and no line is
\* read from the prompt while the queue still holds a command: a line read
\* from the queue is the first command the queue held, and when a line is
\* read from the prompt the queue holds no command.
C18_QueueBeforePrompt ==
    [][/\ (cycle'.handled /\ cycle'.read = "queue") =>
            /\ cycle'.userinput = Head(Commands(arg_inp))
            /\ Commands(arg_inp') = Tail(Commands(arg_inp))
       /\ (cycle'.handled /\ cycle'.read = "prompt") =>
            Commands(arg_inp') = <<>>
       /\ pc' = "prompt" => Commands(arg_inp') = <<>>]_vars

\* C19: every startup command is taken from the queue and dispatched, in
\* order; none is dropped because an earlier one completed: when a handler
\* that was dispatched ends the run, the queue holds no command any more.
C19_NoQueuedCommandDropped ==
    (pc = "exited" /\ cycle.dispatched # <<>>) => Commands(arg_inp) = <<>>

\* next_inp for every element of the queue built from a startup string
Queued(text) == [k \in DOMAIN ParseArgs(text) |-> NextInp(ParseArgs(text)[k])]

\* C20: for any list of commands, the startup string made by doubling each
\* command's commas and joining the commands with single commas is parsed
\* back into the same list: split at the single commas, each double comma
\* delivered as one comma.
C20_ParseRoundTrip ==
    \A cmds \in CmdLists :
       g.argument_commands = EncodeArgs(cmds) => Queued(g.argument_commands) = cmds

\* C21: an interrupt or end of input at the interactive read never ends the
\* process by itself: it leads to the prompt 'Press ctrl-c again to exit';
\* an interrupt ends the process only when it arrives at that prompt; a line
\* typed at that prompt is dispatched over the registry like any command and
\* the loop goes on (unless the handler itself is interrupted).
C21_InterruptConfirms ==
    [][/\ (cycle'.read = "interrupt" /\ pc = "await") =>
            /\ pc' = "confirm"
            /\ g'.message = "press ctrl-c again to exit"
       /\ (cycle'.read = "interrupt" /\ pc' = "exited") => pc = "confirm"
       /\ (cycle'.read = "confirm" /\ cycle'.exc # "KeyboardInterrupt") =>
            /\ pc = "confirm"
            /\ cycle'.handled
            /\ cycle'.dispatched = Dispatch(Registry, 1, cycle'.userinput)
            /\ pc' = "await"]_vars

\* a command typed at the confirmation prompt has run and the loop reads again
C21_Witness ==
    /\ pc = "await"
    /\ cycle.read = "confirm"
    /\ cycle.dispatched # <<>>
    /\ g.message # "press ctrl-c again to exit"

\* the step is a handling cycle in which KeyboardInterrupt arrived while the
\* handler ran
InterruptedCycle ==
    /\ cycle'.handled
    /\ cycle'.dispatched # <<>>
    /\ \/ cycle'.exc = "KeyboardInterrupt"
       \/ g'.message = "downloads interrupted" /\ g.message # g'.message

\* C22: an interrupt that arrives while a handler runs aborts only that
\* handler: a status message is set, the loop reads the next command and the
\* process is not terminated.
C22_InterruptAbortsHandlerOnly ==
    [][InterruptedCycle => pc' = "await" /\ g'.message # g.message]_vars

\* C23: len() of an IterSlicer with a declared length returns that length
\* and pulls nothing; without one it pulls the generator until it is
\* finished, returns the number of records then memoized (all N records of
\* a generator that was still live) and keeps it, so that a later len()
\* returns the same value.
C23_LenDeclaredOrCounted ==
    [][req'.op = "len" =>
         /\ slicer.length # None =>
              req'.n = slicer.length /\ slicer' = slicer
         /\ (slicer.length = None /\ req'.exc = "none") =>
              /\ slicer'.gen # "live"
              /\ req'.n = Len(slicer'.ilist)
              /\ slicer.gen = "live" => req'.n = slicer.N
              /\ slicer'.length = req'.n]_vars

\* len() without a declared length has pulled a live generator to its end
C23_Witness ==
    /\ req.op = "len"
    /\ req.before.length = None
    /\ req.before.gen = "live"
    /\ req.exc = "none"
    /\ req.n >= 2
    /\ Len(req.before.ilist) < req.n

\* C24: when the generator raises during a slice or a len, the error
\* reaches the caller, the records memoized before it are retained
\* unchanged, and later slices return them and raise nothing.
C24_FailureKeepsMemo ==
    [][/\ req'.exc # "none" =>
            /\ req'.exc = "GdataError"
            /\ slicer'.gen = "raised"
            /\ IsPrefix(slicer.ilist, slicer'.ilist)
       /\ (req'.op = "getitem" /\ slicer.gen = "raised") =>
            /\ req'.exc = "none"
            /\ slicer'.ilist = slicer.ilist
            /\ req'.res = PySlice(slicer.ilist, req'.s, req'.e)]_vars

\* a slice after a failed pull returns records memoized before the failure
C24_Witness ==
    /\ req.op = "getitem"
    /\ req.before.gen = "raised"
    /\ req.before.ilist # <<>>
    /\ req.res # <<>>

\* C27: the memo ilist is always the first len(ilist) records of the source
\* in source order, and a request only appends to it.
C27_MemoIsPrefix ==
    [][/\ IsPrefix(slicer.ilist, slicer'.ilist)
       /\ Len(slicer'.ilist) <= slicer'.N
       /\ \A k \in 1..Len(slicer'.ilist) :
            slicer'.ilist[k] = [src |-> slicer'.src, i |-> k - 1]]_vars

\* the memo has grown over more than one request
C27_Witness ==
    /\ Len(slicer.ilist) >= 3
    /\ req.before.ilist # <<>>
    /\ Len(req.before.ilist) < Len(slicer.ilist)

RECURSIVE WellFormed(_, _)
\* the positions from k on of the well-formed items of a page, in order
WellFormed(items, k) ==
    IF k > Len(items) THEN <<>>
    ELSE IF items[k] = "ok" THEN <<k>> \o WellFormed(items, k + 1)
    ELSE WellFormed(items, k + 1)

\* C25: for a page in which one item is malformed, get_tracks_from_json
\* does not fail and returns exactly one entry per well-formed item, in
\* input order, none of them twice.
C25_BadRecordSkipped ==
    (/\ req.op = "tracks"
     /\ Len(req.items) - Len(WellFormed(req.items, 1)) = 1)
    => /\ req.exc = "none"
       /\ req.res = WellFormed(req.items, 1)

C28_PageRangeRequested ==
    [][cycle'.handled => \A k \in DOMAIN cycle'.asked :
         LET a == cycle'.asked[k]
         IN  /\ a.dumps => a.s = 0 /\ a.e = None
             /\ ~a.dumps => /\ a.s = a.page * MaxResults
                            /\ a.e = (a.page + 1) * MaxResults
             /\ (k = Len(cycle'.asked) /\ cycle'.exc = "none") =>
                  /\ g'.current_page = a.page
                  /\ Len(g'.model) <= (IF a.dumps THEN slicer'.N ELSE MaxResults)
                  /\ \A j \in DOMAIN g'.model : g'.model[j].i = a.s + j - 1]_vars

\* a page after the first has been asked for and is shown
C28_Witness ==
    /\ cycle.handled
    /\ cycle.asked # <<>>
    /\ cycle.exc = "none"
    /\ g.model # <<>>
    /\ cycle.asked[1].page >= 1
    /\ ~cycle.asked[1].dumps

\* C29: when the stored query (paginatesongs over the stored IterSlicer) is
\* invoked again for the page and range that the cycle before it asked for
\* and showed, the second invocation leaves the session as the first left
\* it: list, g.current_page, g.result_count, g.browse_mode,
\* g.last_search_query and everything else, the memo included.
C29_RequeryIdempotent ==
    [][(/\ cycle'.handled
        /\ cycle'.userinput \in {I_dump, I_undump}
        /\ cycle'.again
        /\ cycle'.exc = "none")
       => /\ Session(g') = Session(g)
          /\ g' = g
          /\ slicer' = slicer]_vars

\* 'undump' has asked for page 0 again right after a search showed it
C29_Witness ==
    /\ cycle.handled
    /\ cycle.userinput = I_undump
    /\ cycle.again
    /\ cycle.exc = "none"
    /\ g.model # <<>>

\* C30: after a 'url' command with several urls the list of the session is
\* either the videos of all its urls or, when resolving one of them failed,
\* the list shown before the command.
C30_FailedUrlKeepsList ==
    [][(/\ cycle'.handled
        /\ cycle'.dispatched # <<>>
        /\ Registry[cycle'.dispatched[1]] = "yt_url"
        /\ UrlCount(SubSeq(cycle'.userinput, 5, Len(cycle'.userinput))) >= 2)
       => \/ g'.model = g.model
          \/ g'.model =
               [k \in 1..UrlCount(SubSeq(cycle'.userinput, 5,
                                         Len(cycle'.userinput))) |->
                  Rec("url", k - 1)]]_vars

\* regex.fullmatch(userinput): some way of matching the pattern ends at the
\* end of the line
FullMatches(regex, userinput) ==
    LET outs == Run(regex, userinput, [p |-> 0, g |-> NoGroups])
    IN  \E i \in DOMAIN outs : outs[i].p = Len(userinput)

\* C31: matchfunction accepts exactly the lines that the pattern can match
\* as a whole: the handler dispatched for a line is that of the first
\* binding whose pattern has a full match of the line.
C31_FullMatchEmulated ==
    [][cycle'.handled =>
         LET full == {k \in DOMAIN g_commands :
                        FullMatches(RegexOf(g_commands[k]), cycle'.userinput)}
         IN  /\ full = {} => cycle'.dispatched = <<>>
             /\ full # {} =>
                  cycle'.dispatched = <<CHOOSE k \in full : \A j \in full : k <= j>>]_vars

\* C32: once the generator of an IterSlicer has signalled its end
\* (StopIteration), no later slice or len call asks it for a record again.
C32_NoPullAfterExhaustion ==
    [][slicer.gen = "stopped" => ~req'.late]_vars

\* C33: g.result_count is the total length of the result set of
\* g.last_search_query, so 'n' and 'p' page over the whole set: a down_many
\* that returns leaves g.result_count and g.current_page as they were, also
\* on a page after the first of a listing of several pages.
C33_DownloadKeepsTotal ==
    [][(cycle'.userinput \in LinesOf["down_many"] /\ cycle'.exc = "none") =>
         /\ g'.result_count = g.result_count
         /\ g'.current_page = g.current_page]_vars

\* C34: down_many puts the displayed list back on every way out: after the
\* downloads, after download errors it handles or lets through, after an
\* interrupt and after an index outside the list, g.model is the list that
\* was displayed when the command was entered.
C34_DownloadRestoresList ==
    [][cycle'.userinput \in LinesOf["down_many"] => g'.model = g.model]_vars

\* downloads of items of a displayed list ended with an IOError that left
\* down_many, or were interrupted
C34_Witness ==
    /\ cycle.handled
    /\ cycle.userinput \in LinesOf["down_many"]
    /\ cycle.exc = "IOError" \/ g.message = "downloads interrupted"
    /\ Len(g.model) >= 2
\* C35: a playlist search that finds no playlist sets the 'No playlists
\* found' message and nothing else: g.current_page, g.browse_mode,
\* g.result_count, g.last_search_query and the displayed lists are as they
\* were before it.
C35_EmptyPlSearchKeepsListing ==
    [][(cycle'.userinput \in LinesOf["pl_search"]
          /\ cycle'.exc = "none" /\ g'.message = "no playlists found") =>
         Session(g') = Session(g)]_vars
\* ------------------------------------------------------------------------
\* Editing the displayed list: add, rm, mv, sw, shuffle, reverse
\* ------------------------------------------------------------------------

\* largest length of the displayed list in the editing specification
MaxSongs == 2

\* largest length of the working playlist g.active
MaxActive == 2

Titles == {"s1", "s2"}

\* the 1-based position that Python index i (i >= -1) names in a list of n
\* items, 0 when list[i] raises IndexError
Pos(n, i) ==
    IF 0 <= i /\ i < n THEN i + 1
    ELSE IF i < 0 /\ -i <= n THEN n + i + 1
    ELSE 0

\* the list without its item at position k
RemoveAt(seq, k) == SubSeq(seq, 1, k - 1) \o SubSeq(seq, k + 1, Len(seq))

\* an insert that overwrites the item at the target position
PyInsert_replace(seq, j, v) ==
    LET n == Len(seq)
        at == IF j < 0 THEN Max(n + j, 0) ELSE Min(j, n)
    IN  SubSeq(seq, 1, at) \o <<v>> \o SubSeq(seq, at + 2, n)

\* list.insert(j, v): the index is clamped to the list
PyInsert(seq, j, v) ==
    LET n == Len(seq)
        at == IF j < 0 THEN Max(n + j, 0) ELSE Min(j, n)
    IN  SubSeq(seq, 1, at) \o <<v>> \o SubSeq(seq, at + 1, n)

\* seq[::-1]
Reversed(seq) == [k \in 1..Len(seq) |-> seq[Len(seq) + 1 - k]]

RECURSIVE Descending(_)
\* sorted(set(selection), reverse=True)
Descending(nums) ==
    IF nums = {} THEN <<>>
    ELSE LET hi == CHOOSE x \in nums : \A y \in nums : x >= y
         IN  <<hi>> \o Descending(nums \ {hi})

RECURSIVE AddLoop(_, _, _)
\* the loop of the 'add' branch from the k-th number of the selection on
AddLoop(st, selection, k) ==
    IF k > Len(selection) THEN st
    ELSE LET at == Pos(Len(st.g.model), selection[k] - 1)
         IN  IF at = 0 THEN Raise(st, "IndexError")
             ELSE AddLoop([st EXCEPT !.g.active = Append(@, st.g.model[at])],
                          selection, k + 1)

RECURSIVE RmLoop(_, _, _)
\* the loop of the 'rm' branch from the k-th number of the sorted selection on
RmLoop(st, selection, k) ==
    IF k > Len(selection) THEN st
    ELSE LET at == Pos(Len(st.g.model), selection[k] - 1)
         IN  IF at = 0 THEN Raise(st, "IndexError")
             ELSE RmLoop([st EXCEPT !.g.model = RemoveAt(@, at)],
                         selection, k + 1)

\* songlist_rm_add(action, songrange) with songrange parsed to the list of
\* numbers selection
songlist_rm_add(st, action, selection) ==
    LET out == IF action = "add" THEN AddLoop(st, selection, 1)
               ELSE RmLoop(st, Descending({selection[k] : k \in DOMAIN selection}), 1)
    IN  IF out.exc # "none" THEN out
        ELSE [out EXCEPT !.g.message = IF action = "add" THEN "added to pl"
                                       ELSE "songs rm",
                         !.g.content = "songlist"]

\* songlist_mv_sw(action, a, b)
songlist_mv_sw(st, action, a, b) ==
    LET i == a - 1
        j == b - 1
        songs == st.g.model
        n == Len(songs)
        pi == Pos(n, i)
        pj == Pos(n, j)
    IN  IF action = "mv"
        THEN IF pi = 0 THEN Raise(st, "IndexError")
             ELSE LET moved == [st EXCEPT
                                  !.g.model = PyInsert(RemoveAt(songs, pi), j,
                                                       songs[pi])]
                  IN  IF pj = 0 THEN Raise(moved, "IndexError")
                      ELSE [moved EXCEPT !.g.message = "song move",
                                         !.g.content = "songlist"]
        ELSE IF pi = 0 \/ pj = 0 THEN Raise(st, "IndexError")
             ELSE [st EXCEPT
                     !.g.model = [[songs EXCEPT ![pi] = songs[pj]]
                                    EXCEPT ![pj] = songs[pi]],
                     !.g.message = "song sw",
                     !.g.content = "songlist"]

\* the orders random.shuffle can leave a list of n items in
Orders(n) == {f \in [1..n -> 1..n] : \A x, y \in 1..n : f[x] = f[y] => x = y}

\* shuffle_fn() with the order random.shuffle draws
shuffle_fn(st, order) ==
    [st EXCEPT !.g.model = [k \in 1..Len(@) |-> @[order[k]]],
               !.g.message = "items shuffled",
               !.g.content = "songlist"]

\* reverse_songs()
reverse_songs(st) ==
    [st EXCEPT !.g.model = Reversed(@),
               !.g.message = "reversed",
               !.g.content = "songlist"]

\* reverse_songs_range(lower, upper)
reverse_songs_range(st, lower, upper) ==
    LET lo == Min(lower, upper)
        up == Max(lower, upper)
        songs == st.g.model
        n == Len(songs)
        start == IF lo - 1 < 0 THEN Max(n + lo - 1, 0) ELSE Min(lo - 1, n)
        stop == Max(Min(up, n), start)
    IN  [st EXCEPT
           !.g.model = SubSeq(songs, 1, start)
                       \o Reversed(SubSeq(songs, start + 1, stop))
                       \o SubSeq(songs, stop + 1, n),
           !.g.message = "reversed range",
           !.g.content = "songlist"]

\* the lists of up to n items over a set
ListsUpTo(items, n) == UNION {[1..k -> items] : k \in 0..n}

\* the numbers a selection names
Positions == 0..(MaxSongs + 1)

InitEdit ==
    /\ \E songs \in ListsUpTo(Titles, MaxSongs) : g = [InitG EXCEPT !.model = songs]
    /\ slicer = NoSlicer
    /\ pc = "await"
    /\ cycle = NoCycle
    /\ g_commands = Registry
    /\ req = [op |-> "none", args |-> <<>>, exc |-> "none"]
    /\ arg_inp = <<>>

\* the end of a cycle that edits the list: matchfunction's except clauses
Edited(op, args, out) ==
    /\ g' = Contain(out).g
    /\ req' = [op |-> op, args |-> args, exc |-> out.exc]
    /\ UNCHANGED <<slicer, pc, cycle, g_commands, arg_inp>>

SongAdd ==
    \E selection \in ListsUpTo(Positions, 2) :
       /\ selection # <<>>
       /\ Len(g.active) + Len(selection) <= MaxActive
       /\ Edited("add", selection, songlist_rm_add(Start, "add", selection))

SongRm ==
    \E selection \in ListsUpTo(Positions, 2) :
       /\ selection # <<>>
       /\ Edited("rm", selection, songlist_rm_add(Start, "rm", selection))

SongMvSw ==
    \E action \in {"mv", "sw"}, a, b \in Positions :
       Edited(action, <<a, b>>, songlist_mv_sw(Start, action, a, b))

Shuffle ==
    \E order \in Orders(Len(g.model)) :
       Edited("shuffle", <<>>, shuffle_fn(Start, order))

ReverseSongs == Edited("reverse", <<>>, reverse_songs(Start))

ReverseRange ==
    \E lower, upper \in Positions :
       Edited("reverse range", <<lower, upper>>,
              reverse_songs_range(Start, lower, upper))

NextEdit == SongAdd \/ SongRm \/ SongMvSw \/ Shuffle \/ ReverseSongs
            \/ ReverseRange

SpecEdit == InitEdit /\ [][NextEdit]_vars

\* C36: 'add' with a selection in which a number is outside the displayed
\* list leaves the working playlist g.active as it was; with a selection of
\* numbers inside the list it appends the selected songs, in the order of
\* the selection.
C36_AddAllOrNothing ==
    [][req'.op = "add" =>
         IF \E k \in DOMAIN req'.args : Pos(Len(g.model), req'.args[k] - 1) = 0
         THEN g'.active = g.active
         ELSE g'.active = g.active \o [k \in DOMAIN req'.args |->
                              g.model[Pos(Len(g.model), req'.args[k] - 1)]]]_vars
\* the songs of a list that its positions in a set select, in list order
Selected(seq, positions) ==
    LET F[k \in 0..Len(seq)] ==
          IF k = 0 THEN <<>>
          ELSE IF k \in positions THEN Append(F[k - 1], seq[k]) ELSE F[k - 1]
    IN  F[Len(seq)]

\* C37: 'rm' removes from the displayed list the songs at the selected
\* positions, counted from 1, a position selected twice once, and keeps the
\* other songs in their order; when a selected position is beyond the end of
\* the list no song is removed.
C37_RmExactlySelected ==
    [][req'.op = "rm" =>
         LET sel == {req'.args[k] : k \in DOMAIN req'.args}
         IN  IF \E x \in sel : x > Len(g.model)
             THEN g'.model = g.model
             ELSE g'.model = Selected(g.model, (1..Len(g.model)) \ sel)]_vars

\* the number of times x occurs in a list
Count(seq, x) == Cardinality({k \in DOMAIN seq : seq[k] = x})

\* a reordering command was handled
Reordered(op) == op \in {"mv", "sw", "shuffle", "reverse", "reverse range"}

\* C38: mv, sw, shuffle, reverse and reverse a-b only permute the displayed
\* list: after each of them, also when it ends in a contained IndexError, the
\* list holds every song as often as before; reversing the list, or a range
\* of it, twice gives back the order it had.
C38_ReorderPermutes ==
    [][Reordered(req'.op) =>
         /\ \A x \in Titles : Count(g'.model, x) = Count(g.model, x)
         /\ Len(g'.model) = Len(g.model)
         /\ req'.op = "reverse" =>
              reverse_songs([Start EXCEPT !.g = g']).g.model = g.model
         /\ req'.op = "reverse range" =>
              reverse_songs_range([Start EXCEPT !.g = g'], req'.args[1],
                                  req'.args[2]).g.model = g.model]_vars

\* a song was moved past the end of a list of several different songs, so
\* that the lookup of its new position raised after the move
C38_Witness ==
    /\ req.op = "mv"
    /\ req.exc = "IndexError"
    /\ req.args[1] \in 1..Len(g.model)
    /\ Len(g.model) >= 2
    /\ g.model[1] # g.model[Len(g.model)]
    /\ g.message = "invalid range"
\* ------------------------------------------------------------------------
\* The saved playlists g.userpl: rename and remove
\*
\* g.userpl is the set of its entries [name, songs].
\* ------------------------------------------------------------------------

\* the names of saved playlists, in sorted order
NameOrder == <<"x", "y", "z">>

Names == {NameOrder[k] : k \in DOMAIN NameOrder}

\* the song lists a saved playlist holds
SavedLists == {<<>>, <<"s1">>, <<"s2", "s1">>}

\* name in g.userpl
Has(userpl, name) == \E e \in userpl : e.name = name

\* g.userpl[name].songs
SongsOf(userpl, name) == (CHOOSE e \in userpl : e.name = name).songs

\* g.userpl[name] = Playlist(name) followed by g.userpl[name].songs = songs
Put(userpl, name, songs) ==
    {e \in userpl : e.name # name} \cup {[name |-> name, songs |-> songs]}

\* del g.userpl[name]
Del(userpl, name) == {e \in userpl : e.name # name}

\* sorted(g.userpl)
SortedNames(userpl) ==
    LET F[k \in 0..Len(NameOrder)] ==
          IF k = 0 THEN <<>>
          ELSE IF Has(userpl, NameOrder[k]) THEN Append(F[k - 1], NameOrder[k])
          ELSE F[k - 1]
    IN  F[Len(NameOrder)]

\* name.isdigit() for the arguments of one character
IsDigit(name) == name \in Digits

\* the truth value of g.userpl.get(name): None when the name is absent, else
\* a Playlist, an object with a length (len(g.model), len(g.userpl[...])),
\* which is false when empty
Truthy(userpl, name) == Has(userpl, name) /\ SongsOf(userpl, name) # <<>>

\* playlist_remove(name)
playlist_remove(st, name) ==
    IF IsDigit(name) \/ Truthy(st.g.userpl, name)
    THEN LET sorted == SortedNames(st.g.userpl)
             at == IF IsDigit(name) THEN Pos(Len(sorted), DigitVal[name] - 1)
                   ELSE 1
             key == IF IsDigit(name) THEN sorted[at] ELSE name
         IN  IF at = 0 THEN Raise(st, "IndexError")
             ELSE [st EXCEPT !.g.userpl = Del(@, key),
                             !.g.message = "deleted playlist",
                             !.g.content = "playlists"]
    ELSE [st EXCEPT !.g.message = "pl not found",
                    !.g.content = "playlists"]

\* playlist_rename(playlists) for the text "a b" of two names without blanks
playlist_rename(st, a, b) ==
    IF ~Has(st.g.userpl, a)
    THEN [st EXCEPT !.g.message = "no pl match for rename",
                    !.g.content = IF @ = "" THEN "playlists" ELSE @]
    ELSE LET created == Put(st.g.userpl, b, <<>>)
             copied == Put(created, b, SongsOf(created, a))
             removed == playlist_remove([st EXCEPT !.g.userpl = copied], a)
         IN  IF removed.exc # "none" THEN removed
             ELSE [removed EXCEPT !.g.message = "pl renamed"]

\* the stores playlists.load() can read
Stores ==
    {{[name |-> n, songs |-> f[n]] : n \in present} :
        f \in [Names -> SavedLists], present \in SUBSET Names}

InitPlaylists ==
    /\ \E userpl \in Stores : g = [InitG EXCEPT !.userpl = userpl]
    /\ slicer = NoSlicer
    /\ pc = "await"
    /\ cycle = NoCycle
    /\ g_commands = Registry
    /\ req = [op |-> "none", args |-> <<>>, exc |-> "none"]
    /\ arg_inp = <<>>

PlaylistRename ==
    \E a, b \in Names :
       Edited("rename", <<a, b>>, playlist_rename(Start, a, b))

PlaylistRemove ==
    \E name \in Names \cup {"0", "1", "2", "3", "4"} :
       Edited("rmp", <<name>>, playlist_remove(Start, name))

NextPlaylists == PlaylistRename \/ PlaylistRemove

SpecPlaylists == InitPlaylists /\ [][NextPlaylists]_vars

\* C39: renaming a saved playlist a to b ends with the songs a held stored
\* under b and, when b is another name, with a absent, whatever the two
\* names are (b equal to a, b the name of another saved playlist); no song
\* list that was saved is missing afterwards.
C39_RenameKeepsSongs ==
    [][(req'.op = "rename" /\ Has(g.userpl, req'.args[1])) =>
         LET a == req'.args[1]
             b == req'.args[2]
         IN  /\ Has(g'.userpl, b)
             /\ SongsOf(g'.userpl, b) = SongsOf(g.userpl, a)
             /\ a # b => ~Has(g'.userpl, a)
             /\ \A e \in g.userpl : \E f \in g'.userpl : f.songs = e.songs]_vars
\* ------------------------------------------------------------------------
\* The cache of user name queries, g.username_query_cache
\*
\* The cache is an ordered dictionary: the sequence of its entries
\* [key, username, channel_id], the oldest first.
\* ------------------------------------------------------------------------

\* number of entries the cache keeps (the program keeps 300, scaled down
\* here)
CacheMax == 2

\* t.lower() for one character
Lower(ch) == CASE ch = "A" -> "a" [] ch = "B" -> "b" [] OTHER -> ch

\* ''.join([t.strip().lower() for t in userterm.split(' ')])
Normalize(userterm) ==
    LET parts == Split(userterm, " ")
        token(k) == [j \in DOMAIN Strip(parts[k]) |-> Lower(Strip(parts[k])[j])]
    IN  Join([k \in DOMAIN parts |-> token(k)], <<>>)

\* the position of a key in the cache, 0 when it is absent
KeyAt(cache, key) ==
    IF \E k \in DOMAIN cache : cache[k].key = key
    THEN CHOOSE k \in DOMAIN cache : cache[k].key = key
    ELSE 0

\* g.username_query_cache[key] = (username, channel_id): a known key keeps
\* its place, a new one goes to the end
CacheSet(cache, key, username, channel_id) ==
    LET entry == [key |-> key, username |-> username, channel_id |-> channel_id]
        at == KeyAt(cache, key)
    IN  IF at = 0 THEN Append(cache, entry) ELSE [cache EXCEPT ![at] = entry]

RECURSIVE Evict_newest(_)
\* an eviction that drops the newest entry, popitem(last=True)
Evict_newest(cache) ==
    IF Len(cache) > CacheMax
    THEN Evict_newest(SubSeq(cache, 1, Len(cache) - 1))
    ELSE cache

RECURSIVE Evict(_)
\* while len(cache) > 300: cache.popitem(last=False)
Evict(cache) ==
    IF Len(cache) > CacheMax THEN Evict(Tail(cache)) ELSE cache

\* userdata_cached(userterm): the entry, <<>> for None
userdata_cached(st, userterm) ==
    LET cache == st.g.username_query_cache
        at == KeyAt(cache, Normalize(userterm))
    IN  IF at = 0 THEN <<>> ELSE <<cache[at].username, cache[at].channel_id>>

\* cache_userdata(userterm, username, channel_id)
cache_userdata(st, userterm, username, channel_id) ==
    [st EXCEPT !.g.username_query_cache =
                  Evict(CacheSet(@, Normalize(userterm), username, channel_id))]

\* the channel id the backend knows for a user
ChannelOf(user) == <<"U", "C">> \o Normalize(user)

\* channelfromname(user); remote: what the channel search answers when it
\* is asked ("found", "empty": no item, "error": GdataError). The result is
\* the machine state, with the request logged, and the returned pair (<<>>
\* for None)
channelfromname(st, user, remote) ==
    LET cached == userdata_cached(st, user)
        asked == [st EXCEPT !.log = Append(@, [f |-> "call_gdata", page |-> 0])]
    IN  IF cached # <<>> THEN [st |-> st, ret |-> cached]
        ELSE IF remote = "found"
        THEN [st |-> cache_userdata(asked, user, user, ChannelOf(user)),
              ret |-> <<user, ChannelOf(user)>>]
        ELSE IF remote = "empty"
        THEN [st |-> [asked EXCEPT !.g.message = "user not found"], ret |-> <<>>]
        ELSE [st |-> [asked EXCEPT !.g.message = "could not retrieve"],
              ret |-> <<>>]

\* the user names searched for
Terms == {<<"a">>, <<"A">>, <<"b">>, <<"B", " ">>, <<"a", " ", "b">>,
          <<"a", "b">>, <<"c">>}

InitCache ==
    /\ g = InitG
    /\ slicer = NoSlicer
    /\ pc = "await"
    /\ cycle = NoCycle
    /\ g_commands = Registry
    /\ req = [op |-> "none", args |-> <<>>, exc |-> "none", requests |-> 0,
              res |-> <<>>, evicted |-> FALSE]
    /\ arg_inp = <<>>

\* a call that may have put an entry in the cache has returned
Cached(op, userterm, out, res) ==
    /\ g' = out.g
    /\ req' = [op |-> op, args |-> userterm, exc |-> "none",
               requests |-> Len(out.log), res |-> res,
               evicted |-> \/ req.evicted
                           \/ \E k \in DOMAIN g.username_query_cache :
                                KeyAt(out.g.username_query_cache,
                                      g.username_query_cache[k].key) = 0]
    /\ UNCHANGED <<slicer, pc, cycle, g_commands, arg_inp>>

CacheUserdata ==
    \E userterm \in Terms :
       Cached("cache_userdata", userterm,
              cache_userdata(Start, userterm, userterm, ChannelOf(userterm)),
              <<userterm, ChannelOf(userterm)>>)

ChannelFromName ==
    \E user \in Terms, remote \in {"found", "empty", "error"} :
       \E r \in {channelfromname(Start, user, remote)} :
          Cached("channelfromname", user, r.st, r.ret)

NextCache == CacheUserdata \/ ChannelFromName

SpecCache == InitCache /\ [][NextCache]_vars

\* the term lower-cased and without its spaces
Squeezed(userterm) ==
    LET F[k \in 0..Len(userterm)] ==
          IF k = 0 THEN <<>>
          ELSE IF userterm[k] = " " THEN F[k - 1]
          ELSE Append(F[k - 1], Lower(userterm[k]))
    IN  F[Len(userterm)]

\* the keys of a cache, oldest first
Keys(cache) == [k \in DOMAIN cache |-> cache[k].key]

\* C40: after every cache_userdata call the cache holds at most the allowed
\* number of entries, the entry just stored is present, and the entries that
\* went are the oldest ones (the keys that stay keep their order); a search
\* term that, lower-cased and without its spaces, is a cached key is found
\* by userdata_cached, and channelfromname then returns the cached pair
\* without a remote request.
C40_CacheBoundedAndFound ==
    [][LET old == g.username_query_cache
           new == g'.username_query_cache
           key == Squeezed(req'.args)
       IN  /\ Len(new) <= CacheMax
           /\ req'.op = "cache_userdata" =>
                /\ KeyAt(new, key) # 0
                /\ <<new[KeyAt(new, key)].username,
                     new[KeyAt(new, key)].channel_id>> = req'.res
                /\ IF KeyAt(old, key) # 0 THEN Keys(new) = Keys(old)
                   ELSE \E k \in 0..Len(old) :
                          /\ Keys(new) = SubSeq(Keys(old), k + 1, Len(old)) \o <<key>>
                          /\ SubSeq(new, 1, Len(new) - 1) = SubSeq(old, k + 1, Len(old))
                          /\ k = Max(0, Len(old) + 1 - CacheMax)
           /\ (req'.op = "channelfromname" /\ KeyAt(old, key) # 0) =>
                /\ req'.requests = 0
                /\ req'.res = <<old[KeyAt(old, key)].username,
                                old[KeyAt(old, key)].channel_id>>
                /\ new = old]_vars

\* after entries were evicted from the full cache, a term written with a
\* capital or a space was found in it and no request was made
C40_Witness ==
    /\ req.op = "channelfromname"
    /\ req.evicted
    /\ req.requests = 0
    /\ req.res # <<>>
    /\ req.args # Normalize(req.args)
    /\ Len(g.username_query_cache) = CacheMax
====
